---- MODULE Spec2Model ----
(***************************************************************************)
(* Model of the tokenomics simulation engine of                            *)
(* src/src/mastra/tools/tokenomics-simulation-tool.ts:                     *)
(* tokenomicsSimulationTool.execute, class TokenomicsSimulator and the     *)
(* CoinGeckoAPI calls it awaits.                                           *)
(*                                                                         *)
(* Numbers.  The program computes with IEEE doubles.  The model computes   *)
(* with integers in fixed units, rounding every quotient towards minus     *)
(* infinity, and keeps NaN and +Infinity as two extra values:              *)
(*   tokens (supplies, vesting totals)            whole tokens             *)
(*   token price, market cap, FDV                 1/PriceScale USD         *)
(*   other USD amounts                            whole USD                *)
(*   drift terms (market effect, influence)       1/EffScale               *)
(*   distribution fractions                       1/FracScale              *)
(*   holders, average holding                     1/HoldScale              *)
(*   ratios (concentration, drawdown)             1/FracScale              *)
(*   percentages                                  whole percent            *)
(* A draw of Math.random() is an integer r in 0..EffScale-1 read as        *)
(* r/EffScale.                                                             *)
(***************************************************************************)
EXTENDS Integers, Sequences, FiniteSets, TLC

\* ------------------------------------------------------------------ bounds

\* Largest simulationMonths drawn for a run.  The month loop, the series and
\* the aggregation treat every month alike, so runs of a few months stand for
\* the longer runs the input schema asks for.
MaxMonths == 2

\* Largest iterations drawn for a run.
MaxIterations == 2

\* ------------------------------------------------------------------ numbers

PriceScale == 10 * 1000
EffScale == 10 * 100
FracScale == 10 * 1000
HoldScale == 10 * 10
ScoreScale == 10 * 10

\* NaN and +Infinity of the doubles, kept apart from every value a run computes.
NaN == -(2 ^ 30)
Inf == 2 ^ 30

IsNum(x) == x # NaN /\ x # Inf

Min(a, b) == IF a < b THEN a ELSE b
Max(a, b) == IF a > b THEN a ELSE b

\* Math.min / Math.max of doubles: NaN if either argument is NaN.
MathMin(a, b) == IF a = NaN \/ b = NaN THEN NaN ELSE Min(a, b)
MathMax(a, b) == IF a = NaN \/ b = NaN THEN NaN ELSE Max(a, b)

\* a + b and a - b of doubles (no run adds two infinities).
FAdd(a, b) ==
  IF a = NaN \/ b = NaN THEN NaN
  ELSE IF a = Inf \/ b = Inf THEN Inf
  ELSE a + b

FSub(a, b) ==
  IF a = NaN \/ b = NaN THEN NaN
  ELSE IF a = Inf THEN Inf
  ELSE a - b

\* a * b where b is in units of 1/scale.
FMul(a, b, scale) ==
  IF a = NaN \/ b = NaN THEN NaN
  ELSE IF a = Inf \/ b = Inf THEN (IF a = 0 \/ b = 0 THEN NaN ELSE Inf)
  ELSE (a * b) \div scale

\* a / b of doubles, the quotient in units of 1/scale: x/0 is +Infinity for
\* x > 0 and NaN for x = 0 (no run divides a negative number by zero).
FDiv(a, b, scale) ==
  IF a = NaN \/ b = NaN THEN NaN
  ELSE IF b = 0 THEN (IF a = 0 THEN NaN ELSE Inf)
  ELSE IF a = Inf THEN Inf
  ELSE (a * scale) \div b

RECURSIVE SqrtBetween(_, _, _)
\* The r in lo..hi with r * r <= n < (r + 1) * (r + 1), by bisection.
SqrtBetween(n, lo, hi) ==
  IF lo >= hi THEN lo
  ELSE LET mid == (lo + hi + 1) \div 2
       IN IF mid * mid <= n THEN SqrtBetween(n, mid, hi) ELSE SqrtBetween(n, lo, mid - 1)

\* Math.floor(Math.sqrt(n)) for 0 <= n < 2^30.
FloorSqrt(n) == SqrtBetween(n, 0, 2 ^ 15)

RECURSIVE SumSeq(_)
SumSeq(s) == IF s = <<>> THEN 0 ELSE FAdd(Head(s), SumSeq(Tail(s)))

\* calculateMean: values.reduce((sum, val) => sum + val, 0) / values.length
calculateMean(values) ==
  LET sum == SumSeq(values) IN
  IF sum = NaN THEN NaN
  ELSE IF Len(values) = 0 THEN NaN
  ELSE IF sum = Inf THEN Inf
  ELSE sum \div Len(values)

RECURSIVE MaxOfSeq(_)
MaxOfSeq(s) ==
  IF Len(s) = 1 THEN Head(s) ELSE MathMax(Head(s), MaxOfSeq(Tail(s)))

RECURSIVE MinOfSeq(_)
MinOfSeq(s) ==
  IF Len(s) = 1 THEN Head(s) ELSE MathMin(Head(s), MinOfSeq(Tail(s)))

RECURSIVE Flatten(_)
Flatten(ss) == IF ss = <<>> THEN <<>> ELSE Head(ss) \o Flatten(Tail(ss))

\* ------------------------------------------------------------------ inputs

\* maxSupply: the smallest value the input schema admits.
MaxSupply == 1000

Distribution(team, advisors, community, treasury, publicSale, privateSale, ecosystem, marketing) ==
  [team |-> team, advisors |-> advisors, community |-> community,
   treasury |-> treasury, publicSale |-> publicSale,
   privateSale |-> privateSale, ecosystem |-> ecosystem,
   marketing |-> marketing]

\* Token distributions drawn for a run: one summing to 1.0, one without a
\* public sale summing to 1.0005, and two the validation must refuse
\* (1.002 and 0.99).
Distributions ==
  { Distribution(2000, 500, 3000, 1500, 1500, 1000, 500, 0),
    Distribution(2000, 500, 3000, 1500, 0, 2500, 505, 0),
    Distribution(2000, 500, 3000, 1500, 1500, 1000, 500, 20),
    Distribution(2000, 500, 3000, 1500, 1400, 1000, 500, 0) }

Schedule(groupName, totalTokens, cliffMonths, vestingMonths, initialUnlock) ==
  [groupName |-> groupName, totalTokens |-> totalTokens,
   cliffMonths |-> cliffMonths, vestingMonths |-> vestingMonths,
   initialUnlock |-> initialUnlock]

\* Vesting schedule lists drawn for a run.
ScheduleLists ==
  { <<>>,
    << Schedule("Team", 1200, 0, 2, 0) >>,
    << Schedule("Community", 600, 0, 1, 50), Schedule("Advisors", 400, 1, 2, 25) >>,
    << Schedule("Investors", 1500, 0, 1, 20) >> }

\* Market conditions drawn for a run: multiplier in tenths, volatility factor
\* in 1/EffScale.
Markets ==
  { [scenario |-> "crash", marketMultiplier |-> 30, volatilityFactor |-> 1000],
    [scenario |-> "stable", marketMultiplier |-> 10, volatilityFactor |-> 100] }

\* initialTokenPrice, 0 standing for an absent override.
PriceOverrides == {0, 3 * PriceScale}

\* The inputs of execute that the engine reads.  The rates and seed values
\* not drawn here are fixed: userGrowthRate 6 and protocolRevenueGrowth 7 as
\* in the repository's test, the others at their schema defaults (burnRate
\* in tenths of a percent).
Contexts ==
  [ tokenDistribution : Distributions,
    vestingSchedules : ScheduleLists,
    market : Markets,
    initialTokenPrice : PriceOverrides,
    simulationMonths : 1..MaxMonths,
    iterations : 1..MaxIterations,
    userGrowthRate : {6},
    protocolRevenueGrowth : {7},
    stakingAPY : {12},
    burnRate : {1},
    stakingParticipation : {40},
    initialLiquidity : {1000000},
    liquidityTokens : {100000},
    dailyActiveUsers : {10000},
    transactionVolume : {100000},
    concentrationRiskThreshold : {(3 * FracScale) \div 10},
    liquidityRiskThreshold : {100000},
    volatilityRiskThreshold : {PriceScale \div 2} ]

\* The params literal, had it carried the input's initialTokenPrice.
ParamsWithInitialTokenPrice(context) ==
  [ tokenDistribution |-> context.tokenDistribution,
    maxSupply |-> MaxSupply,
    vestingSchedules |-> context.vestingSchedules,
    simulationMonths |-> context.simulationMonths,
    iterations |-> context.iterations,
    initialTokenPrice |-> context.initialTokenPrice,
    liquidityDetails |->
      [initialLiquidity |-> context.initialLiquidity,
       liquidityTokens |-> context.liquidityTokens],
    tokenUtility |->
      [stakingAPY |-> context.stakingAPY,
       burnMechanism |-> TRUE,
       burnRate |-> context.burnRate],
    behaviorHypotheses |-> [stakingParticipation |-> context.stakingParticipation],
    marketConditions |->
      [scenario |-> context.market.scenario,
       marketMultiplier |-> context.market.marketMultiplier,
       volatilityFactor |-> context.market.volatilityFactor,
       externalEvents |-> <<>>],
    protocolMetrics |->
      [dailyActiveUsers |-> context.dailyActiveUsers,
       transactionVolume |-> context.transactionVolume,
       growthRate |-> context.protocolRevenueGrowth] ]

\* execute, the params literal: the fields of SimulationParameters the
\* simulator reads, from the input.  The literal has no initialTokenPrice,
\* so the simulator reads undefined there (0 here: both are falsy).
Params(context) ==
  [ tokenDistribution |-> context.tokenDistribution,
    maxSupply |-> MaxSupply,
    vestingSchedules |-> context.vestingSchedules,
    simulationMonths |-> context.simulationMonths,
    iterations |-> context.iterations,
    initialTokenPrice |-> 0,
    liquidityDetails |->
      [initialLiquidity |-> context.initialLiquidity,
       liquidityTokens |-> context.liquidityTokens],
    tokenUtility |->
      [stakingAPY |-> context.stakingAPY,
       burnMechanism |-> TRUE,
       burnRate |-> context.burnRate],
    behaviorHypotheses |-> [stakingParticipation |-> context.stakingParticipation],
    marketConditions |->
      [scenario |-> context.market.scenario,
       marketMultiplier |-> context.market.marketMultiplier,
       volatilityFactor |-> context.market.volatilityFactor,
       externalEvents |-> <<>>],
    protocolMetrics |->
      [dailyActiveUsers |-> context.dailyActiveUsers,
       transactionVolume |-> context.transactionVolume,
       growthRate |-> context.protocolRevenueGrowth] ]

\* ---------------------------------------------------------- provider data

NoData == [present |-> FALSE, current_price |-> 0, market_cap |-> 0, total_volume |-> 0]

AssetData(price, cap, volume) ==
  [present |-> TRUE, current_price |-> price, market_cap |-> cap, total_volume |-> volume]

\* What getAssetData can resolve to: null (any failure) or the current data.
AssetOutcomes == { NoData, AssetData(4 * PriceScale, 144000000, 500000) }

\* What getHistoricalDataFromDate can resolve to: null, or the data of the day.
HistoryOutcomes == { NoData, AssetData(2 * PriceScale, 144000000, 500000) }

\* What getHistoricalDataRange can resolve to: kind "error" is the catch
\* branch or an error payload, both of which give an empty series.
RangeOutcomes ==
  { [kind |-> "error", prices |-> <<>>],
    [kind |-> "data", prices |-> <<>>],
    [kind |-> "data", prices |-> << 2 * PriceScale >>],
    [kind |-> "data",
     prices |-> [i \in 1..40 |-> IF i <= 20 THEN 2 * PriceScale ELSE PriceScale \div 5]] }

\* Draws of Math.random() in a month step.
MonthDraws == {0, 750}

\* Draws of Math.random() in the synthetic walk; one generation takes the
\* same draw at every call.
SyntheticDraws == {0, 500}

\* ------------------------------------------------------------------ engine

RECURSIVE SumInitialUnlock(_)
SumInitialUnlock(schedules) ==
  IF schedules = <<>> THEN 0
  ELSE (Head(schedules).totalTokens * Head(schedules).initialUnlock) \div 100
       + SumInitialUnlock(Tail(schedules))

\* The initial supply with the public sale left out.
calculateInitialCirculatingSupplyOfUnlocks(p) == SumInitialUnlock(p.vestingSchedules)

\* calculateInitialCirculatingSupply: the initial unlocks plus the public sale.
calculateInitialCirculatingSupply(p) ==
  SumInitialUnlock(p.vestingSchedules)
  + (p.tokenDistribution.publicSale * p.maxSupply) \div FracScale

\* initializeState: the userMetrics object literal.
InitialUserMetrics(p) ==
  [activeStakers |-> 0,
   totalHolders |-> 1000 * HoldScale,
   averageHolding |->
     FDiv(calculateInitialCirculatingSupply(p) * HoldScale, 1000 * HoldScale, HoldScale)]

\* initializeState: the state literal; um is the identity of its userMetrics.
initializeState(p, um) ==
  [month |-> 0,
   circulatingSupply |-> calculateInitialCirculatingSupply(p),
   treasuryBalance |-> (p.tokenDistribution.treasury * p.maxSupply) \div FracScale,
   stakedTokens |-> 0,
   tokenPrice |-> PriceScale,
   marketCap |-> calculateInitialCirculatingSupply(p) * PriceScale,
   fullyDilutedValuation |-> p.maxSupply * PriceScale,
   totalLiquidity |-> p.liquidityDetails.initialLiquidity,
   burnedTokens |-> 0,
   protocolRevenue |-> 0,
   stakingAPY |-> p.tokenUtility.stakingAPY,
   liquidityPoolDepth |-> p.liquidityDetails.liquidityTokens,
   dailyVolume |-> 0,
   userMetrics |-> um]

\* updateInitialStateWithRealData: realInitialPrice.
realInitialPrice(p, im) ==
  IF p.initialTokenPrice # 0 THEN p.initialTokenPrice
  ELSE IF im.initialData.present /\ im.initialData.current_price # 0
       THEN im.initialData.current_price
  ELSE PriceScale

\* updateInitialStateWithRealData: estimatedHolders.
estimatedHolders(im) ==
  Max(FloorSqrt((IF im.initialData.present THEN im.initialData.market_cap ELSE 0) \div 10000),
      100)

\* updateInitialStateWithRealData: the userMetrics object literal.
RealUserMetrics(p, im) ==
  LET holders == Max(estimatedHolders(im) * HoldScale,
                     (p.protocolMetrics.dailyActiveUsers * HoldScale) \div 10)
  IN [activeStakers |->
        (estimatedHolders(im) * p.behaviorHypotheses.stakingParticipation) \div 1000,
      totalHolders |-> holders,
      averageHolding |->
        FDiv(calculateInitialCirculatingSupply(p) * HoldScale, holders, HoldScale)]

\* updateInitialStateWithRealData: the new currentState, a copy of cs with the
\* fields below replaced and a new userMetrics object um.
updateInitialStateWithRealData(p, im, cs, um) ==
  LET realInitialSupply == calculateInitialCirculatingSupply(p)
      initialVolume ==
        (IF im.initialData.present THEN im.initialData.total_volume ELSE 0) \div 100
  IN [cs EXCEPT
        !.tokenPrice = realInitialPrice(p, im),
        !.circulatingSupply = realInitialSupply,
        !.marketCap = realInitialSupply * realInitialPrice(p, im),
        !.fullyDilutedValuation = p.maxSupply * realInitialPrice(p, im),
        !.stakedTokens =
          (realInitialSupply * p.behaviorHypotheses.stakingParticipation) \div 1000,
        !.dailyVolume = Max(initialVolume, p.protocolMetrics.transactionVolume),
        !.userMetrics = um]

\* The base effect with the crash lasting through month 3.
baseEffectCrashThroughMonth3(mc, month) ==
  CASE mc.scenario = "bull" -> (50 * mc.marketMultiplier) \div 10
    [] mc.scenario = "bear" -> (-30 * mc.marketMultiplier) \div 10
    [] mc.scenario = "stable" -> (1 * mc.marketMultiplier) \div 10
    [] mc.scenario = "crash" ->
         IF month <= 3 THEN (-150 * mc.marketMultiplier) \div 10
         ELSE (20 * mc.marketMultiplier) \div 10
    [] OTHER -> 0

\* getMarketEffect: baseEffect.
baseEffect(mc, month) ==
  CASE mc.scenario = "bull" -> (50 * mc.marketMultiplier) \div 10
    [] mc.scenario = "bear" -> (-30 * mc.marketMultiplier) \div 10
    [] mc.scenario = "stable" -> (1 * mc.marketMultiplier) \div 10
    [] mc.scenario = "crash" ->
         IF month < 3 THEN (-150 * mc.marketMultiplier) \div 10
         ELSE (20 * mc.marketMultiplier) \div 10
    [] OTHER -> 0

RECURSIVE eventEffect(_, _)
\* getMarketEffect: the impacts (percent) of the events of the month, as drift.
eventEffect(events, month) ==
  IF events = <<>> THEN 0
  ELSE (IF Head(events).month = month THEN Head(events).impact * 10 ELSE 0)
       + eventEffect(Tail(events), month)

\* getMarketEffect with r the value Math.random() returns.
getMarketEffect(p, month, r) ==
  baseEffect(p.marketConditions, month)
  + eventEffect(p.marketConditions.externalEvents, month)
  + ((r - EffScale \div 2) * p.marketConditions.volatilityFactor) \div EffScale

\* The contribution of one schedule with the vesting progress left unclamped.
scheduleVestUnclamped(schedule, month) ==
  IF month > schedule.cliffMonths
  THEN LET monthsAfterCliff == month - schedule.cliffMonths
           totalVestable ==
             (schedule.totalTokens * (100 - schedule.initialUnlock)) \div 100
           shouldBeVested == (totalVestable * monthsAfterCliff) \div schedule.vestingMonths
           previouslyVested ==
             IF monthsAfterCliff > 1
             THEN (totalVestable * (monthsAfterCliff - 1)) \div schedule.vestingMonths
             ELSE 0
       IN shouldBeVested - previouslyVested
  ELSE 0

\* The contribution of a schedule without the subtraction of what had vested
\* before: the cumulative amount instead of the month's.
scheduleVestCumulative(schedule, month) ==
  IF month > schedule.cliffMonths
  THEN LET monthsAfterCliff == month - schedule.cliffMonths
           totalVestable ==
             (schedule.totalTokens * (100 - schedule.initialUnlock)) \div 100
       IN (totalVestable * Min(monthsAfterCliff, schedule.vestingMonths))
            \div schedule.vestingMonths
  ELSE 0

\* vestTokens, the contribution of one schedule.
scheduleVest(schedule, month) ==
  IF month > schedule.cliffMonths
  THEN LET monthsAfterCliff == month - schedule.cliffMonths
           totalVestable ==
             (schedule.totalTokens * (100 - schedule.initialUnlock)) \div 100
           shouldBeVested ==
             (totalVestable * Min(monthsAfterCliff, schedule.vestingMonths))
               \div schedule.vestingMonths
           previouslyVested ==
             IF monthsAfterCliff > 1
             THEN (totalVestable * Min(monthsAfterCliff - 1, schedule.vestingMonths))
                    \div schedule.vestingMonths
             ELSE 0
       IN shouldBeVested - previouslyVested
  ELSE 0

RECURSIVE vestTokens(_, _)
\* vestTokens: the tokens newly vested in the month, over all schedules.
vestTokens(schedules, month) ==
  IF schedules = <<>> THEN 0
  ELSE scheduleVest(Head(schedules), month) + vestTokens(Tail(schedules), month)

\* getHistoricalInfluence; an index outside the array reads undefined, and
\* undefined - x is NaN.
getHistoricalInfluence(prices, month) ==
  IF Len(prices) = 0 THEN 0
  ELSE LET dayIndex == Min(month * 30, Len(prices) - 2)
           currentHistorical == IF dayIndex < 0 THEN NaN ELSE prices[dayIndex + 1]
           previousHistorical == prices[Max(0, dayIndex - 30) + 1]
       IN IF previousHistorical = 0 THEN 0
          ELSE FMul(FDiv(FSub(currentHistorical, previousHistorical),
                         previousHistorical, EffScale),
                    3, 10)

\* getHistoricalInfluence: the indices of historicalPrices it reads, counted
\* from 0 as in the code (none when the series is empty).
influenceIndices(prices, month) ==
  IF Len(prices) = 0 THEN {}
  ELSE LET dayIndex == Min(month * 30, Len(prices) - 2)
       IN {dayIndex, Max(0, dayIndex - 30)}

\* generateSyntheticPriceData: 1 + randomWalk + marketEffect for the days of
\* a month; r is the draw of every Math.random() call of the walk.
syntheticFactor(p, r, month) ==
  EffScale + ((r - EffScale \div 2) * 20) \div EffScale + getMarketEffect(p, month, r)

RECURSIVE syntheticDays(_, _, _)
\* generateSyntheticPriceData: the series after so many more days of one
\* month, each day pushing Math.max(previous * factor, 0.001).
syntheticDays(prices, factor, days) ==
  IF days = 0 THEN prices
  ELSE LET price == FMul(prices[Len(prices)], factor, EffScale)
       IN syntheticDays(Append(prices, Max(price, PriceScale \div 1000)), factor, days - 1)

RECURSIVE SyntheticMonths(_, _, _)
\* generateSyntheticPriceData, the loop over the days of the first months:
\* day 0 is basePrice, every later day continues from the day before.
SyntheticMonths(p, r, months) ==
  IF months = 0 THEN <<>>
  ELSE LET earlier == SyntheticMonths(p, r, months - 1)
           factor == syntheticFactor(p, r, months - 1)
       IN IF Len(earlier) = 0
          THEN syntheticDays(<< PriceScale >>, factor, 29)
          ELSE syntheticDays(earlier, factor, 30)

\* generateSyntheticPriceData: the series it leaves in historicalPrices.
generateSyntheticPriceData(p, r) == SyntheticMonths(p, r, p.simulationMonths)

\* The derived fields with the fully diluted valuation left as it was.
updateDerivedStateKeepingValuation(p, state) ==
  [state EXCEPT !.marketCap = FMul(state.tokenPrice, state.circulatingSupply, 1)]

\* updateDerivedMetrics, the fields of the state object it assigns.
updateDerivedState(p, state) ==
  [state EXCEPT
     !.marketCap = FMul(state.tokenPrice, state.circulatingSupply, 1),
     !.fullyDilutedValuation = FMul(state.tokenPrice, p.maxSupply, 1)]

\* updateDerivedMetrics, the fields of state.userMetrics it assigns in place.
updateDerivedUserMetrics(p, state, um) ==
  LET holders == (um.totalHolders * (100 + p.protocolMetrics.growthRate)) \div 100
  IN [um EXCEPT
        !.totalHolders = holders,
        !.averageHolding = FDiv(state.circulatingSupply * HoldScale, holders, HoldScale)]

\* --------------------------------------------------------------- aggregation

\* The values of one field over a list of states.
FieldOf(states, key) == [i \in 1..Len(states) |-> states[i][key]]

\* calculateAverageState: the object it returns.  It is a shallow copy of
\* states[0], so its userMetrics is the userMetrics object of states[0].
calculateAverageState(states) ==
  [key \in DOMAIN states[1] |->
     IF key = "userMetrics" THEN states[1].userMetrics
     ELSE calculateMean(FieldOf(states, key))]

\* calculateAverageState: the heap after the nested loop, which assigns the
\* means of the userMetrics fields to the userMetrics object of states[0].
averageUserMetrics(states, h) ==
  [h EXCEPT ![states[1].userMetrics] =
     [nestedKey \in DOMAIN h[states[1].userMetrics] |->
        calculateMean([i \in 1..Len(states) |-> h[states[i].userMetrics][nestedKey]])]]

\* aggregateResults: the states of one month over the iterations.
monthStates(rs, m) == [i \in 1..Len(rs) |-> rs[i][m]]

RECURSIVE aggregateFrom(_, _, _, _)
\* aggregateResults, the loop over the months from month m on: the
\* aggregated trajectory and the heap it leaves.
aggregateFrom(rs, h, m, aggregatedTrajectory) ==
  IF m > Len(rs[1]) THEN [trajectory |-> aggregatedTrajectory, heap |-> h]
  ELSE aggregateFrom(rs, averageUserMetrics(monthStates(rs, m), h), m + 1,
                     Append(aggregatedTrajectory,
                            calculateAverageState(monthStates(rs, m))))

\* calculateStandardDeviation, the squared differences taken in 1/100 USD.
calculateStandardDeviation(values) ==
  LET mean == calculateMean(values)
      squaredDiffs ==
        [i \in 1..Len(values) |->
           IF mean = NaN \/ values[i] = NaN THEN NaN
           ELSE ((values[i] - mean) \div 100) * ((values[i] - mean) \div 100)]
      m2 == calculateMean(squaredDiffs)
  IN IF m2 = NaN THEN NaN ELSE FloorSqrt(m2) * 100

RECURSIVE drawdownFrom(_, _, _, _)
\* calculateMaxDrawdown, the forEach from entry i on.
drawdownFrom(trajectory, i, maxPrice, maxDrawdown) ==
  IF i > Len(trajectory) THEN maxDrawdown
  ELSE LET newMax == MathMax(maxPrice, trajectory[i].tokenPrice)
           drawdown == FDiv(FSub(newMax, trajectory[i].tokenPrice), newMax, FracScale)
       IN drawdownFrom(trajectory, i + 1, newMax, MathMax(maxDrawdown, drawdown))

\* The drawdown taken from the highest price of the whole trajectory.
calculateMaxDrawdownFromTop(trajectory) ==
  drawdownFrom(trajectory, 1, MaxOfSeq(FieldOf(trajectory, "tokenPrice")), 0)

\* calculateMaxDrawdown: the drawdown in percent, in units of 1/100 percent.
calculateMaxDrawdown(trajectory) == drawdownFrom(trajectory, 1, 0, 0)

\* calculateDistributionMetrics: groupName.toLowerCase() includes 'team' or
\* 'advisor', over the group names the model draws.
IsTeamOrAdvisor(groupName) == groupName \in {"Team", "Advisors"}

RECURSIVE teamAndAdvisorVested(_)
teamAndAdvisorVested(schedules) ==
  IF schedules = <<>> THEN 0
  ELSE (IF IsTeamOrAdvisor(Head(schedules).groupName)
        THEN Head(schedules).totalTokens ELSE 0)
       + teamAndAdvisorVested(Tail(schedules))

\* calculateDistributionMetrics.
calculateDistributionMetrics(p, trajectory) ==
  LET finalState == trajectory[Len(trajectory)]
      concentrationRisk ==
        FDiv(teamAndAdvisorVested(p.vestingSchedules), finalState.circulatingSupply,
             FracScale)
  IN [concentrationRisk |-> MathMin(concentrationRisk, FracScale),
      giniCoefficient |-> (45 * FracScale) \div 100,
      topHolderPercentage |-> MathMin(FMul(concentrationRisk, 100, 1), 50 * FracScale)]

\* An initial price of 1.0 whatever the provider answered.
getInitialPriceDefault(im) == PriceScale

\* getInitialPrice, and initialPrice of aggregateResults (the same expression).
getInitialPrice(im) ==
  IF im.set /\ im.initialData.present /\ im.initialData.current_price # 0
  THEN im.initialData.current_price
  ELSE PriceScale

\* aggregateResults: the summary.
summaryOf(rs, im, aggregatedTrajectory) ==
  LET finalPrices == [i \in 1..Len(rs) |-> rs[i][Len(rs[i])].tokenPrice]
      allPrices == FieldOf(Flatten(rs), "tokenPrice")
      initialPrice == getInitialPrice(im)
  IN [finalPrice |-> calculateMean(finalPrices),
      maxPrice |-> MaxOfSeq(allPrices),
      minPrice |-> MinOfSeq(allPrices),
      totalReturn |->
        FDiv(FSub(calculateMean(finalPrices), initialPrice), initialPrice, FracScale),
      volatility |-> calculateStandardDeviation(allPrices),
      maxDrawdown |-> calculateMaxDrawdown(aggregatedTrajectory)]

\* aggregateResults: the SimulationResult (the fixed stress-test and
\* sensitivity tables left out).
aggregateResults(p, im, rs, h) ==
  LET agg == aggregateFrom(rs, h, 1, <<>>)
  IN [trajectory |-> agg.trajectory,
      summary |-> summaryOf(rs, im, agg.trajectory),
      distributionMetrics |-> calculateDistributionMetrics(p, agg.trajectory)]

\* aggregateResults: the heap it leaves.
aggregateHeap(rs, h) == aggregateFrom(rs, h, 1, <<>>).heap

\* ------------------------------------------------------------------- state

VARIABLES
  pc,                \* where the call of execute stands
  context,           \* the input of the call
  issues,            \* what the schema found wrong with the input
  constructed,       \* whether new TokenomicsSimulator(params) has run
  error,             \* the Error the call throws, NoError while none
  providerCalls,     \* the fetches issued so far
  replies,           \* what the provider answered, by call
  currentState,      \* TokenomicsSimulator.currentState
  heap,              \* the userMetrics objects, by identity
  historicalPrices,  \* TokenomicsSimulator.historicalPrices
  initialMetrics,    \* TokenomicsSimulator.initialMetrics
  iteration,         \* runSimulation: iteration
  month,             \* runSingleIteration: month
  trajectory,        \* runSingleIteration: trajectory
  results,           \* runSimulation: results
  appended,          \* per iteration, the state as it was when each entry was pushed
  result,            \* what runSimulation resolved to
  output,            \* what execute returns
  run,               \* 1 for a call, 2 for its repetition with the same input
  firstRun,          \* the trajectory the first call returned
  vSchedule,         \* vesting walk: the schedule
  vMonth,            \* vesting walk: the last month vested
  vCumulative,       \* vesting walk: initial unlock plus the months' vesting
  vPrevious,         \* vesting walk: vCumulative one month earlier
  callArgs,          \* a function called by itself: its arguments
  callResults        \* a function called by itself: what its calls returned

vars ==
  << pc, context, issues, constructed, error, providerCalls, replies, currentState, heap,
     historicalPrices, initialMetrics, iteration, month, trajectory, results,
     appended, result, output, run, firstRun, vSchedule, vMonth, vCumulative,
     vPrevious,
     callArgs, callResults >>

vestVars == << vSchedule, vMonth, vCumulative, vPrevious >>

runVars == << run, firstRun >>

callVars == << callArgs, callResults >>

NoError == [message |-> "", got |-> 0]
NoMetrics == [set |-> FALSE, initialData |-> NoData, currentData |-> NoData]
NoReplies == [asset |-> NoData, history |-> NoData, range |-> [kind |-> "none", prices |-> <<>>]]
NoState == initializeState(Params(CHOOSE c \in Contexts : TRUE), 0)
NoResult == [trajectory |-> <<>>]
NoOutput == [rows |-> 0]
NoSchedule == Schedule("", 0, 0, 1, 0)
NoCall == [fn |-> "none"]

\* A state with its userMetrics object in place of the object's identity.
Deep(state, h) == [state EXCEPT !.userMetrics = h[state.userMetrics]]

DeepTrajectory(t, h) == [i \in 1..Len(t) |-> Deep(t[i], h)]

\* The state before the call: nothing of the simulator exists yet.
Idle ==
  /\ constructed = FALSE
  /\ error = NoError
  /\ providerCalls = 0
  /\ replies = NoReplies
  /\ currentState = NoState
  /\ heap = <<>>
  /\ historicalPrices = <<>>
  /\ initialMetrics = NoMetrics
  /\ iteration = 0
  /\ month = 0
  /\ trajectory = <<>>
  /\ results = <<>>
  /\ appended = <<>>
  /\ result = NoResult
  /\ output = NoOutput

Init ==
  /\ pc = "start"
  /\ callArgs = NoCall
  /\ callResults = <<>>
  /\ context \in Contexts
  /\ issues = {}
  /\ Idle
  /\ run = 1
  /\ firstRun = <<>>
  /\ vSchedule = NoSchedule
  /\ vMonth = 0
  /\ vCumulative = 0
  /\ vPrevious = 0

\* ----------------------------------------------------------------- execute

\* execute: distributionSum.
distributionSum(d) ==
  d.team + d.advisors + d.community + d.treasury + d.publicSale + d.privateSale
  + d.ecosystem + d.marketing

\* execute: distributionSum.toFixed(3), in units of 1/1000.
toFixed3(sum) == (sum + 5) \div 10

\* The distribution check with a tolerance of 0.01.
distributionAcceptedWithin1Percent(d) ==
  ~ ((IF distributionSum(d) >= FracScale THEN distributionSum(d) - FracScale
      ELSE FracScale - distributionSum(d)) > FracScale \div 100)

\* execute: the negation of Math.abs(distributionSum - 1.0) > 0.001.
distributionAccepted(d) ==
  ~ ((IF distributionSum(d) >= FracScale THEN distributionSum(d) - FracScale
      ELSE FracScale - distributionSum(d)) > FracScale \div 1000)

\* execute, to the throw of the distribution check.
Validate ==
  /\ pc = "start"
  /\ IF distributionAccepted(context.tokenDistribution)
     THEN /\ pc' = "validated"
          /\ error' = error
     ELSE /\ pc' = "failed"
          /\ error' = [message |-> "Token distribution must sum to 1.0",
                       got |-> toFixed3(distributionSum(context.tokenDistribution))]
  /\ UNCHANGED << context, issues, constructed, providerCalls, replies, currentState, heap,
                  historicalPrices, initialMetrics, iteration, month, trajectory,
                  results, appended, result, output >>
  /\ UNCHANGED runVars
  /\ UNCHANGED vestVars
  /\ UNCHANGED callVars

\* execute: new TokenomicsSimulator(params), then runSimulation to its first
\* await: loadHistoricalData, getInitialMetrics, getAssetData, fetch.
Construct ==
  /\ pc = "validated"
  /\ constructed' = TRUE
  /\ heap' = Append(heap, InitialUserMetrics(Params(context)))
  /\ currentState' = initializeState(Params(context), Len(heap) + 1)
  /\ providerCalls' = providerCalls + 1
  /\ pc' = "awaitAsset"
  /\ UNCHANGED << context, issues, error, replies, historicalPrices, initialMetrics, iteration,
                  month, trajectory, results, appended, result, output >>
  /\ UNCHANGED runVars
  /\ UNCHANGED vestVars
  /\ UNCHANGED callVars

\* The answers a call may get: any on a first call, the first call's on its
\* repetition.
Answer(call, outcomes) == IF run = 1 THEN outcomes ELSE {replies[call]}

\* getAssetData resolves; getInitialMetrics goes on to
\* getHistoricalDataFromDate and its fetch.
AssetResponse ==
  /\ pc = "awaitAsset"
  /\ \E o \in Answer("asset", AssetOutcomes) :
       /\ replies' = [replies EXCEPT !.asset = o]
       /\ initialMetrics' = [initialMetrics EXCEPT !.currentData = o]
  /\ providerCalls' = providerCalls + 1
  /\ pc' = "awaitHistory"
  /\ UNCHANGED << context, issues, constructed, error, currentState, heap, historicalPrices,
                  iteration, month, trajectory, results, appended, result, output >>
  /\ UNCHANGED runVars
  /\ UNCHANGED vestVars
  /\ UNCHANGED callVars

\* getHistoricalDataFromDate resolves; getInitialMetrics returns (current data
\* standing in for missing historical data), loadHistoricalData assigns
\* initialMetrics and goes on to getHistoricalDataRange and its fetch.
HistoryResponse ==
  /\ pc = "awaitHistory"
  /\ \E o \in Answer("history", HistoryOutcomes) :
       /\ replies' = [replies EXCEPT !.history = o]
       /\ initialMetrics' =
            [set |-> TRUE,
             initialData |-> IF o.present THEN o ELSE initialMetrics.currentData,
             currentData |-> initialMetrics.currentData]
  /\ providerCalls' = providerCalls + 1
  /\ pc' = "awaitRange"
  /\ UNCHANGED << context, issues, constructed, error, currentState, heap, historicalPrices,
                  iteration, month, trajectory, results, appended, result, output >>
  /\ UNCHANGED runVars
  /\ UNCHANGED vestVars
  /\ UNCHANGED callVars

\* The series kept as the provider gave it, empty or not.
loadedPricesAsGiven(p, prices, r) == prices

\* loadHistoricalData after getHistoricalDataRange resolved to prices: the
\* series the simulator keeps.
loadedPrices(p, prices, r) ==
  IF Len(prices) = 0 THEN generateSyntheticPriceData(p, r) ELSE prices

\* getHistoricalDataRange resolves; loadHistoricalData finishes: the series,
\* the synthetic series if it is empty, updateInitialStateWithRealData.
RangeResponse ==
  /\ pc = "awaitRange"
  /\ \E o \in Answer("range", RangeOutcomes) :
       /\ replies' = [replies EXCEPT !.range = o]
       /\ \E r \in SyntheticDraws :
            historicalPrices' = loadedPrices(Params(context), o.prices, r)
  /\ heap' = Append(heap, RealUserMetrics(Params(context), initialMetrics))
  /\ currentState' =
       updateInitialStateWithRealData(Params(context), initialMetrics, currentState,
                                      Len(heap) + 1)
  /\ iteration' = 0
  /\ results' = <<>>
  /\ pc' = "iterate"
  /\ UNCHANGED << context, issues, constructed, error, providerCalls, initialMetrics, month,
                  trajectory, appended, result, output >>
  /\ UNCHANGED runVars
  /\ UNCHANGED vestVars
  /\ UNCHANGED callVars

\* runSingleIteration: the state at the start of an iteration, um1 and um2
\* being the userMetrics objects initializeState and
\* updateInitialStateWithRealData create.
iterationStart(p, im, um1, um2) ==
  IF im.set
  THEN updateInitialStateWithRealData(p, im, initializeState(p, um1), um2)
  ELSE initializeState(p, um1)

\* runSimulation: the loop takes another iteration; runSingleIteration to
\* the head of its month loop.
StartIteration ==
  /\ pc = "iterate"
  /\ iteration < Params(context).iterations
  /\ heap' = Append(Append(heap, InitialUserMetrics(Params(context))),
                    RealUserMetrics(Params(context), initialMetrics))
  /\ currentState' =
       iterationStart(Params(context), initialMetrics, Len(heap) + 1, Len(heap) + 2)
  /\ trajectory' = <<>>
  /\ appended' = Append(appended, <<>>)
  /\ month' = 0
  /\ pc' = "month"
  /\ UNCHANGED << context, issues, constructed, error, providerCalls, replies,
                  historicalPrices, initialMetrics, iteration, results, result, output >>
  /\ UNCHANGED runVars
  /\ UNCHANGED vestVars
  /\ UNCHANGED callVars

\* The month's assignments with the historical influence left out of the
\* price.
monthStateMarketOnly(p, prices, state, m, r) ==
  updateDerivedState(p,
    [state EXCEPT
       !.month = m,
       !.circulatingSupply = state.circulatingSupply + vestTokens(p.vestingSchedules, m),
       !.tokenPrice = FMul(state.tokenPrice, EffScale + getMarketEffect(p, m, r), EffScale)])

\* The month's assignments, had the month also accrued protocol revenue at
\* the growth rate.
monthStateAccruingRevenue(p, prices, state, m, r) ==
  updateDerivedState(p,
    [state EXCEPT
       !.month = m,
       !.circulatingSupply = state.circulatingSupply + vestTokens(p.vestingSchedules, m),
       !.tokenPrice =
         FMul(state.tokenPrice,
              FAdd(EffScale + getMarketEffect(p, m, r), getHistoricalInfluence(prices, m)),
              EffScale),
       !.protocolRevenue = state.protocolRevenue + p.protocolMetrics.growthRate])

\* runSingleIteration: the state object after the assignments of one month,
\* r being the draw of getMarketEffect.
monthState(p, prices, state, m, r) ==
  LET marketEffect == getMarketEffect(p, m, r)
      historicalInfluence == getHistoricalInfluence(prices, m)
      moved ==
        [state EXCEPT
           !.month = m,
           !.circulatingSupply = state.circulatingSupply + vestTokens(p.vestingSchedules, m),
           !.tokenPrice =
             FMul(state.tokenPrice, FAdd(EffScale + marketEffect, historicalInfluence),
                  EffScale)]
  IN updateDerivedState(p, moved)

\* runSingleIteration: one pass of the month loop.
MonthStep ==
  /\ pc = "month"
  /\ month < Params(context).simulationMonths
  /\ \E r \in MonthDraws :
       /\ currentState' =
            monthState(Params(context), historicalPrices, currentState, month, r)
       /\ heap' =
            [heap EXCEPT ![currentState.userMetrics] =
               updateDerivedUserMetrics(Params(context), currentState', @)]
  /\ trajectory' = Append(trajectory, currentState')
  /\ appended' =
       [appended EXCEPT ![Len(appended)] = Append(@, Deep(currentState', heap'))]
  /\ month' = month + 1
  /\ UNCHANGED << pc, context, issues, constructed, error, providerCalls, replies,
                  historicalPrices, initialMetrics, iteration, results, result, output >>
  /\ UNCHANGED runVars
  /\ UNCHANGED vestVars
  /\ UNCHANGED callVars

\* runSingleIteration returns; runSimulation pushes the trajectory.
FinishIteration ==
  /\ pc = "month"
  /\ month >= Params(context).simulationMonths
  /\ results' = Append(results, trajectory)
  /\ iteration' = iteration + 1
  /\ pc' = "iterate"
  /\ UNCHANGED << context, issues, constructed, error, providerCalls, replies, currentState,
                  heap, historicalPrices, initialMetrics, month, trajectory, appended,
                  result, output >>
  /\ UNCHANGED runVars
  /\ UNCHANGED vestVars
  /\ UNCHANGED callVars

\* aggregateResults called from within the loop, once a trajectory is there.
AggregateEarly ==
  /\ pc = "iterate"
  /\ iteration >= 1
  /\ result' = aggregateResults(Params(context), initialMetrics, results, heap)
  /\ heap' = aggregateHeap(results, heap)
  /\ pc' = "aggregated"
  /\ UNCHANGED << context, issues, constructed, error, providerCalls, replies, currentState,
                  historicalPrices, initialMetrics, iteration, month, trajectory,
                  results, appended, output >>
  /\ UNCHANGED runVars
  /\ UNCHANGED vestVars
  /\ UNCHANGED callVars

\* runSimulation: the loop is over; aggregateResults.
Aggregate ==
  /\ pc = "iterate"
  /\ iteration >= Params(context).iterations
  /\ result' = aggregateResults(Params(context), initialMetrics, results, heap)
  /\ heap' = aggregateHeap(results, heap)
  /\ pc' = "aggregated"
  /\ UNCHANGED << context, issues, constructed, error, providerCalls, replies, currentState,
                  historicalPrices, initialMetrics, iteration, month, trajectory,
                  results, appended, output >>
  /\ UNCHANGED runVars
  /\ UNCHANGED vestVars
  /\ UNCHANGED callVars

\* execute: supplyEvolution, the inflationRate of every row, in 1/FracScale
\* percent.
inflationRates(rows) ==
  [index \in 1..Len(rows) |->
     IF index > 1
     THEN FMul(FDiv(FSub(rows[index].circulatingSupply,
                         rows[index - 1].circulatingSupply),
                    rows[index - 1].circulatingSupply, FracScale),
               100, 1)
     ELSE 0]

\* execute: marketCapTrajectory, the mcapToFdvRatio of every row, in
\* 1/FracScale (the valuation taken in units of FracScale, which keeps the
\* quotient within the integers of the checker).
mcapToFdvRatios(rows) ==
  [index \in 1..Len(rows) |->
     IF IsNum(rows[index].marketCap) /\ IsNum(rows[index].fullyDilutedValuation)
     THEN FDiv(rows[index].marketCap, rows[index].fullyDilutedValuation \div FracScale, 1)
     ELSE FDiv(rows[index].marketCap, rows[index].fullyDilutedValuation, 1)]

\* execute: stakingRatio of a state, in 1/FracScale.
stakingRatio(state) == FDiv(state.stakedTokens, state.circulatingSupply, FracScale)

\* execute: liquidityRatio of a state, in 1/FracScale.
liquidityRatio(state) == FDiv(state.liquidityPoolDepth, state.circulatingSupply, FracScale)

\* execute: the entry vestingProgress[schedule.groupName] is set to, before
\* the months are walked.
initialProgress(schedule) ==
  [vestedTokens |-> (schedule.totalTokens * schedule.initialUnlock) \div 100,
   remainingTokens |-> (schedule.totalTokens * (100 - schedule.initialUnlock)) \div 100,
   progress |-> schedule.initialUnlock]

RECURSIVE progressAfterForEach(_, _, _)
\* execute: vestingProgress after the forEach over the schedules from entry
\* idx on: one entry per group name, a later schedule of the same name
\* replacing the earlier one's.
progressAfterForEach(schedules, idx, vestingProgress) ==
  IF idx > Len(schedules) THEN vestingProgress
  ELSE progressAfterForEach(schedules, idx + 1,
         [name \in DOMAIN vestingProgress \cup {schedules[idx].groupName} |->
            IF name = schedules[idx].groupName THEN initialProgress(schedules[idx])
            ELSE vestingProgress[name]])

\* execute: the entry of a schedule's group after the schedule's vesting of
\* the month mo, unchanged outside the schedule's window.
progressAfterSchedule(schedule, mo, entry) ==
  IF mo > schedule.cliffMonths /\ mo <= schedule.cliffMonths + schedule.vestingMonths
  THEN LET totalVestableTokens ==
             (schedule.totalTokens * (100 - schedule.initialUnlock)) \div 100
           tokensVested == totalVestableTokens \div schedule.vestingMonths
       IN [vestedTokens |-> entry.vestedTokens + tokensVested,
           remainingTokens |-> Max(0, entry.remainingTokens - tokensVested),
           progress |->
             FDiv((entry.vestedTokens + tokensVested) * 100, schedule.totalTokens, 1)]
  ELSE entry

RECURSIVE progressAfterMonths(_, _, _, _, _)
\* execute: vestingProgress after the loops over the months from mo on and,
\* within the month, over the schedules from entry idx on.
progressAfterMonths(schedules, months, mo, idx, vestingProgress) ==
  IF mo >= months THEN vestingProgress
  ELSE IF idx > Len(schedules)
  THEN progressAfterMonths(schedules, months, mo + 1, 1, vestingProgress)
  ELSE progressAfterMonths(schedules, months, mo, idx + 1,
         [vestingProgress EXCEPT
            ![schedules[idx].groupName] = progressAfterSchedule(schedules[idx], mo, @)])

\* execute: vestingSummary, one row per schedule, read from the entry of the
\* schedule's group name.
vestingSummary(schedules, months) ==
  LET vestingProgress ==
        progressAfterMonths(schedules, months, 0, 1,
                            progressAfterForEach(schedules, 1, << >>))
  IN [idx \in 1..Len(schedules) |->
        [groupName |-> schedules[idx].groupName,
         totalTokens |-> schedules[idx].totalTokens,
         vestedTokens |-> vestingProgress[schedules[idx].groupName].vestedTokens,
         remainingTokens |-> vestingProgress[schedules[idx].groupName].remainingTokens,
         vestingProgress |-> vestingProgress[schedules[idx].groupName].progress]]

\* execute: vestingEvents.length, one event for each month below
\* simulationMonths and schedule with the month inside the schedule's window
\* and a positive monthly amount.
vestingEventCount(p) ==
  Cardinality({ e \in (0..(p.simulationMonths - 1)) \X (1..Len(p.vestingSchedules)) :
    LET schedule == p.vestingSchedules[e[2]]
    IN /\ e[1] > schedule.cliffMonths
       /\ e[1] <= schedule.cliffMonths + schedule.vestingMonths
       /\ schedule.totalTokens * (100 - schedule.initialUnlock) > 0 })

\* execute: concentrationRiskScore, in 1/ScoreScale points.
concentrationRiskScore(ctx, res) ==
  MathMin(100 * ScoreScale,
          FMul(FDiv(res.distributionMetrics.concentrationRisk,
                    ctx.concentrationRiskThreshold, FracScale),
               100 * ScoreScale, FracScale))

\* execute: liquidityRiskScore, in 1/ScoreScale points.
liquidityRiskScore(ctx, res) ==
  LET finalState == res.trajectory[Len(res.trajectory)]
  IN IF finalState.liquidityPoolDepth < ctx.liquidityRiskThreshold
     THEN MathMin(100 * ScoreScale,
                  FDiv(ctx.liquidityRiskThreshold * 50, finalState.liquidityPoolDepth,
                       ScoreScale))
     ELSE MathMax(0, 50 * ScoreScale
                       - FDiv(finalState.liquidityPoolDepth * 10,
                              ctx.liquidityRiskThreshold, ScoreScale))

\* execute: volatilityRiskScore, in 1/ScoreScale points.
volatilityRiskScore(ctx, res) ==
  MathMin(100 * ScoreScale,
          FMul(FDiv(res.summary.volatility, ctx.volatilityRiskThreshold, FracScale),
               100 * ScoreScale, FracScale))

\* execute: vestingRiskScore, in 1/ScoreScale points.
vestingRiskScore(p) ==
  MathMin(100 * ScoreScale, (vestingEventCount(p) * 25 * ScoreScale) \div 12)

\* execute: marketRiskScore, in points.
marketRiskScore(ctx) ==
  IF ctx.market.scenario = "crash" THEN 90
  ELSE IF ctx.market.scenario = "bear" THEN 70
  ELSE IF ctx.market.scenario = "bull" THEN 30
  ELSE 50

\* Math.round of a number given in 1/scale: the nearest integer, halves up.
MathRound(x, scale) ==
  IF x = NaN THEN NaN ELSE IF x = Inf THEN Inf ELSE (2 * x + scale) \div (2 * scale)

\* execute: overallRiskScore, in points.
overallRiskScore(ctx, p, res) ==
  MathRound(FAdd(FAdd(FAdd(FAdd(FMul(concentrationRiskScore(ctx, res), 25, 1),
                                FMul(liquidityRiskScore(ctx, res), 20, 1)),
                           FMul(volatilityRiskScore(ctx, res), 20, 1)),
                      FMul(vestingRiskScore(p), 15, 1)),
                 marketRiskScore(ctx) * ScoreScale * 20),
            100 * ScoreScale)

\* execute: riskAssessment, the scores behind the returned levels.
riskAssessment(ctx, p, res) ==
  [overallRiskScore |-> overallRiskScore(ctx, p, res),
   concentrationRiskScore |-> concentrationRiskScore(ctx, res),
   liquidityRiskScore |-> liquidityRiskScore(ctx, res),
   volatilityRiskScore |-> volatilityRiskScore(ctx, res),
   vestingRiskScore |-> vestingRiskScore(p),
   marketRiskScore |-> marketRiskScore(ctx)]

\* execute, after runSimulation: the fields of the returned object taken
\* from the result.
outputOf(ctx, p, im, res) ==
  [rows |-> Len(res.trajectory),
   simulationMonths |-> p.simulationMonths,
   iterations |-> p.iterations,
   initialPrice |-> getInitialPrice(im),
   finalPrice |-> res.summary.finalPrice,
   maxPrice |-> res.summary.maxPrice,
   minPrice |-> res.summary.minPrice,
   totalReturn |-> res.summary.totalReturn,
   maxDrawdown |-> res.summary.maxDrawdown,
   volatility |-> res.summary.volatility,
   finalCirculatingSupply |-> res.trajectory[Len(res.trajectory)].circulatingSupply,
   concentrationRisk |-> res.distributionMetrics.concentrationRisk,
   inflationRate |-> inflationRates(res.trajectory),
   mcapToFdvRatio |-> mcapToFdvRatios(res.trajectory),
   stakingRatio |-> stakingRatio(res.trajectory[Len(res.trajectory)]),
   liquidityRatio |-> liquidityRatio(res.trajectory[Len(res.trajectory)]),
   riskAssessment |-> riskAssessment(ctx, p, res)]

\* execute returns.
Finish ==
  /\ pc = "aggregated"
  /\ output' = outputOf(context, Params(context), initialMetrics, result)
  /\ pc' = "done"
  /\ UNCHANGED << context, issues, constructed, error, providerCalls, replies, currentState,
                  heap, historicalPrices, initialMetrics, iteration, month, trajectory,
                  results, appended, result >>
  /\ UNCHANGED runVars
  /\ UNCHANGED vestVars
  /\ UNCHANGED callVars

Next ==
  \/ Validate
  \/ Construct
  \/ AssetResponse
  \/ HistoryResponse
  \/ RangeResponse
  \/ StartIteration
  \/ MonthStep
  \/ FinishIteration
  \/ Aggregate
  \/ Finish

Spec == Init /\ [][Next]_vars

\* ----------------------------------------------------- the call, repeated

\* A second call of execute with the input of the first: a new simulator,
\* and a provider that answers what it answered before.
Repeat ==
  /\ pc = "done"
  /\ run = 1
  /\ run' = 2
  /\ firstRun' = DeepTrajectory(result.trajectory, heap)
  /\ pc' = "start"
  /\ constructed' = FALSE
  /\ error' = NoError
  /\ providerCalls' = 0
  /\ currentState' = NoState
  /\ heap' = <<>>
  /\ historicalPrices' = <<>>
  /\ initialMetrics' = NoMetrics
  /\ iteration' = 0
  /\ month' = 0
  /\ trajectory' = <<>>
  /\ results' = <<>>
  /\ appended' = <<>>
  /\ result' = NoResult
  /\ output' = NoOutput
  /\ UNCHANGED << context, issues, replies >>
  /\ UNCHANGED vestVars
  /\ UNCHANGED callVars

RepeatInit == Init /\ context.iterations = 1

RepeatNext == Next \/ Repeat

\* Two calls with iterations = 1, the same input and the same provider answers.
RepeatSpec == RepeatInit /\ [][RepeatNext]_vars

\* ------------------------------------------------------------- scheduling

\* The steps the engine takes by itself; the three responses are the
\* provider's to give.
EngineNext ==
  \/ Validate
  \/ Construct
  \/ StartIteration
  \/ MonthStep
  \/ FinishIteration
  \/ Aggregate
  \/ Finish

\* The run under a scheduler that runs the engine whenever it can step, and
\* a provider that may or may not answer.
LiveSpec == Init /\ [][Next]_vars /\ WF_vars(EngineNext)

\* ------------------------------------------------------------ vesting walk

\* Largest cliffMonths, vestingMonths of the schedules walked.
MaxCliff == 2
MaxVesting == 3

\* The months walked: past the end of every schedule.
VestHorizon == MaxCliff + MaxVesting + 2

VestSchedules ==
  { Schedule("Team", total, cliff, vesting, unlock) :
      total \in {0, 1200}, cliff \in 0..MaxCliff, vesting \in 1..MaxVesting,
      unlock \in {0, 25, 100} }

\* Month 0 of a schedule: the initial unlock, as
\* calculateInitialCirculatingSupply credits it, and vestTokens(0).
VestInit ==
  /\ pc = "vesting"
  /\ callArgs = NoCall
  /\ callResults = <<>>
  /\ context = CHOOSE c \in Contexts : TRUE
  /\ issues = {}
  /\ Idle
  /\ run = 1
  /\ firstRun = <<>>
  /\ vSchedule \in VestSchedules
  /\ vMonth = 0
  /\ vCumulative = SumInitialUnlock(<< vSchedule >>) + vestTokens(<< vSchedule >>, 0)
  /\ vPrevious = 0

\* The next month of the schedule: vestTokens(month) is added.
VestStep ==
  /\ pc = "vesting"
  /\ vMonth < VestHorizon
  /\ vMonth' = vMonth + 1
  /\ vPrevious' = vCumulative
  /\ vCumulative' = vCumulative + vestTokens(<< vSchedule >>, vMonth + 1)
  /\ UNCHANGED << pc, context, issues, constructed, error, providerCalls, replies, currentState,
                  heap, historicalPrices, initialMetrics, iteration, month, trajectory,
                  results, appended, result, output, vSchedule >>
  /\ UNCHANGED runVars
  /\ UNCHANGED callVars

VestNext == VestStep

\* vestTokens applied month after month to one schedule.
VestSpec == VestInit /\ [][VestNext]_vars

\* ------------------------------------------------------ the input, checked

\* inputSchema: the limits of simulationMonths.
MinSimulationMonths == 6
MaxSimulationMonths == 120

\* inputSchema: the largest iterations.
MaxSchemaIterations == 1000

\* Inputs as a caller hands them over, before the schema has seen them.
RawContexts ==
  [ tokenDistribution :
      { Distribution(2000, 500, 3000, 1500, 1500, 1000, 500, 0),
        Distribution(2000, 500, 3000, 1500, 1500, 1000, 500, 20) },
    vestingSchedules :
      { <<>>,
        << Schedule("Team", 1200, 0, 2, 0) >>,
        << Schedule("Team", 1200, 0, 2, 101) >>,
        << Schedule("Team", 1200, 0, 2, -1) >>,
        << Schedule("Team", 1200, -1, 2, 0) >>,
        << Schedule("Team", 1200, 0, 0, 0) >>,
        << Schedule("Community", 600, 0, 1, 50), Schedule("Advisors", 400, -1, 0, 25) >> },
    market : { [scenario |-> "stable", marketMultiplier |-> 10, volatilityFactor |-> 100] },
    initialTokenPrice : {0},
    simulationMonths : {-1, 0, MinSimulationMonths},
    iterations : {-1, 0, 1},
    userGrowthRate : {6},
    protocolRevenueGrowth : {7},
    stakingAPY : {12},
    burnRate : {1},
    stakingParticipation : {40},
    initialLiquidity : {1000000},
    liquidityTokens : {100000},
    dailyActiveUsers : {10000},
    transactionVolume : {100000},
    concentrationRiskThreshold : {(3 * FracScale) \div 10},
    liquidityRiskThreshold : {100000},
    volatilityRiskThreshold : {PriceScale \div 2} ]

\* A violated constraint of the schema: the path of the value and the limit
\* it breaks.
Issue(path, code, limit) == [path |-> path, code |-> code, limit |-> limit]

\* inputSchema: the issues of one entry of vestingSchedules.
scheduleIssues(schedule, i) ==
  (IF schedule.totalTokens < 0
     THEN {Issue(<<"vestingSchedules", i, "totalTokens">>, "too_small", 0)} ELSE {})
  \cup (IF schedule.cliffMonths < 0
     THEN {Issue(<<"vestingSchedules", i, "cliffMonths">>, "too_small", 0)} ELSE {})
  \cup (IF schedule.cliffMonths > 60
     THEN {Issue(<<"vestingSchedules", i, "cliffMonths">>, "too_big", 60)} ELSE {})
  \cup (IF schedule.vestingMonths < 1
     THEN {Issue(<<"vestingSchedules", i, "vestingMonths">>, "too_small", 1)} ELSE {})
  \cup (IF schedule.vestingMonths > 120
     THEN {Issue(<<"vestingSchedules", i, "vestingMonths">>, "too_big", 120)} ELSE {})
  \cup (IF schedule.initialUnlock < 0
     THEN {Issue(<<"vestingSchedules", i, "initialUnlock">>, "too_small", 0)} ELSE {})
  \cup (IF schedule.initialUnlock > 100
     THEN {Issue(<<"vestingSchedules", i, "initialUnlock">>, "too_big", 100)} ELSE {})

\* The schema with no lower limit on cliffMonths.
schemaIssuesWithoutCliffMinimum(ctx) ==
  UNION { scheduleIssues(ctx.vestingSchedules[i], i)
            \ {Issue(<<"vestingSchedules", i, "cliffMonths">>, "too_small", 0)} :
          i \in 1..Len(ctx.vestingSchedules) }
  \cup (IF ctx.simulationMonths < MinSimulationMonths
     THEN {Issue(<<"simulationMonths">>, "too_small", MinSimulationMonths)} ELSE {})
  \cup (IF ctx.simulationMonths > MaxSimulationMonths
     THEN {Issue(<<"simulationMonths">>, "too_big", MaxSimulationMonths)} ELSE {})
  \cup (IF ctx.iterations < 1 THEN {Issue(<<"iterations">>, "too_small", 1)} ELSE {})
  \cup (IF ctx.iterations > MaxSchemaIterations
     THEN {Issue(<<"iterations">>, "too_big", MaxSchemaIterations)} ELSE {})

\* inputSchema: the issues of an input, over the fields the model draws out
\* of range (vestingSchedules, simulationMonths, iterations).
schemaIssues(ctx) ==
  UNION { scheduleIssues(ctx.vestingSchedules[i], i) : i \in 1..Len(ctx.vestingSchedules) }
  \cup (IF ctx.simulationMonths < MinSimulationMonths
     THEN {Issue(<<"simulationMonths">>, "too_small", MinSimulationMonths)} ELSE {})
  \cup (IF ctx.simulationMonths > MaxSimulationMonths
     THEN {Issue(<<"simulationMonths">>, "too_big", MaxSimulationMonths)} ELSE {})
  \cup (IF ctx.iterations < 1 THEN {Issue(<<"iterations">>, "too_small", 1)} ELSE {})
  \cup (IF ctx.iterations > MaxSchemaIterations
     THEN {Issue(<<"iterations">>, "too_big", MaxSchemaIterations)} ELSE {})

\* The tool is called: the input is parsed against inputSchema, and execute
\* runs only on an input without issues.
ParseInput ==
  /\ pc = "received"
  /\ issues' = schemaIssues(context)
  /\ pc' = IF schemaIssues(context) = {} THEN "start" ELSE "rejected"
  /\ UNCHANGED << context, constructed, error, providerCalls, replies, currentState,
                  heap, historicalPrices, initialMetrics, iteration, month, trajectory,
                  results, appended, result, output >>
  /\ UNCHANGED runVars
  /\ UNCHANGED vestVars
  /\ UNCHANGED callVars

InputInit ==
  /\ pc = "received"
  /\ callArgs = NoCall
  /\ callResults = <<>>
  /\ context \in RawContexts
  /\ issues = {}
  /\ Idle
  /\ run = 1
  /\ firstRun = <<>>
  /\ vSchedule = NoSchedule
  /\ vMonth = 0
  /\ vCumulative = 0
  /\ vPrevious = 0

InputNext ==
  \/ ParseInput
  \/ Next

InputSpec == InputInit /\ [][InputNext]_vars

\* ------------------------------------------------------------ market effect

\* Values of Math.random(), in 1/EffScale.
RandomDraws == {0, 250, 750, EffScale - 1}

\* A scheduled event: its month and its impact in percent.
Event(m, impact) == [month |-> m, impact |-> impact]

\* Calls of getMarketEffect: the market conditions of the simulator and the
\* month asked for.
MarketCalls ==
  [ fn : {"getMarketEffect"},
    scenario : {"bull", "bear", "stable", "crash", "custom"},
    marketMultiplier : {10, 30},
    volatilityFactor : {100, EffScale},
    externalEvents :
      { <<>>,
        << Event(1, -20) >>,
        << Event(0, 10), Event(3, 5), Event(3, -2), Event(4, 7) >> },
    month : 0..4 ]

\* The parameters getMarketEffect reads, from the arguments of a call.
marketParams(args) ==
  [marketConditions |->
     [scenario |-> args.scenario,
      marketMultiplier |-> args.marketMultiplier,
      volatilityFactor |-> args.volatilityFactor,
      externalEvents |-> args.externalEvents]]

MarketInit ==
  /\ pc = "market"
  /\ context = CHOOSE c \in Contexts : TRUE
  /\ issues = {}
  /\ Idle
  /\ run = 1
  /\ firstRun = <<>>
  /\ vSchedule = NoSchedule
  /\ vMonth = 0
  /\ vCumulative = 0
  /\ vPrevious = 0
  /\ callArgs \in MarketCalls
  /\ callResults = <<>>

\* getMarketEffect(month) is called, once for each of two iterations.
MarketCall ==
  /\ pc = "market"
  /\ Len(callResults) < 2
  /\ \E r \in RandomDraws :
       callResults' =
         Append(callResults, getMarketEffect(marketParams(callArgs), callArgs.month, r))
  /\ UNCHANGED << pc, context, issues, constructed, error, providerCalls, replies,
                  currentState, heap, historicalPrices, initialMetrics, iteration, month,
                  trajectory, results, appended, result, output, callArgs >>
  /\ UNCHANGED runVars
  /\ UNCHANGED vestVars

MarketNext == MarketCall

\* getMarketEffect called by itself.
MarketSpec == MarketInit /\ [][MarketNext]_vars

\* ------------------------------------------------------ historical influence

\* A series of n daily prices that rises by step from first (falls for a
\* negative step), never below 1.
Series(n, first, step) == [i \in 1..n |-> Max(1, first + (i - 1) * step)]

\* Price series a provider may answer with, or the simulator may hold.
PriceSeries ==
  { Series(n, 2 * PriceScale, step) : n \in {0, 1, 2, 3, 31, 40, 61, 95}, step \in {-100, 0, 250} }

\* Calls of getHistoricalInfluence: the series of the simulator and the
\* month asked for.
InfluenceCalls ==
  [ fn : {"getHistoricalInfluence"}, historicalPrices : PriceSeries, month : 0..4 ]

InfluenceInit ==
  /\ pc = "influence"
  /\ context = CHOOSE c \in Contexts : TRUE
  /\ issues = {}
  /\ Idle
  /\ run = 1
  /\ firstRun = <<>>
  /\ vSchedule = NoSchedule
  /\ vMonth = 0
  /\ vCumulative = 0
  /\ vPrevious = 0
  /\ callArgs \in InfluenceCalls
  /\ callResults = <<>>

\* getHistoricalInfluence(month) is called: what it returns and the indices
\* it read.
InfluenceCall ==
  /\ pc = "influence"
  /\ callResults = <<>>
  /\ callResults' =
       << [value |-> getHistoricalInfluence(callArgs.historicalPrices, callArgs.month),
           read |-> influenceIndices(callArgs.historicalPrices, callArgs.month)] >>
  /\ UNCHANGED << pc, context, issues, constructed, error, providerCalls, replies,
                  currentState, heap, historicalPrices, initialMetrics, iteration, month,
                  trajectory, results, appended, result, output, callArgs >>
  /\ UNCHANGED runVars
  /\ UNCHANGED vestVars

InfluenceNext == InfluenceCall

\* getHistoricalInfluence called by itself.
InfluenceSpec == InfluenceInit /\ [][InfluenceNext]_vars

\* --------------------------------------------------------- vesting summary

\* Schedules of two groups, with amounts that divide evenly over the months.
SummarySchedules ==
  { Schedule(name, 1200, cliff, vesting, unlock) :
      name \in {"Team", "Advisors"}, cliff \in {0, 2}, vesting \in {1, 3},
      unlock \in {0, 25} }

\* The inputs of the vesting summary: one or two schedules, which may share
\* a group name, and the months simulated.
SummaryCalls ==
  [ fn : {"vestingSummary"},
    vestingSchedules :
      { << a >> : a \in SummarySchedules }
        \cup { << a, b >> : a \in SummarySchedules, b \in SummarySchedules },
    simulationMonths : {1, 3, 6} ]

SummaryInit ==
  /\ pc = "summary"
  /\ context = CHOOSE c \in Contexts : TRUE
  /\ issues = {}
  /\ Idle
  /\ run = 1
  /\ firstRun = <<>>
  /\ vSchedule = NoSchedule
  /\ vMonth = 0
  /\ vCumulative = 0
  /\ vPrevious = 0
  /\ callArgs \in SummaryCalls
  /\ callResults = <<>>

\* execute builds vestingSummary.
SummaryCall ==
  /\ pc = "summary"
  /\ callResults = <<>>
  /\ callResults' =
       << vestingSummary(callArgs.vestingSchedules, callArgs.simulationMonths) >>
  /\ UNCHANGED << pc, context, issues, constructed, error, providerCalls, replies,
                  currentState, heap, historicalPrices, initialMetrics, iteration, month,
                  trajectory, results, appended, result, output, callArgs >>
  /\ UNCHANGED runVars
  /\ UNCHANGED vestVars

SummaryNext == SummaryCall

\* The vesting summary of execute, built by itself.
SummarySpec == SummaryInit /\ [][SummaryNext]_vars

\* ------------------------------------------------------------------ claims

\* The states every iteration recorded, as they were when recorded.
recordedStates == Flatten(appended)

\* The call has returned a result from runSimulation.
Returned == pc \in {"aggregated", "done"}

\* The distribution sum is off 1.0 by more than 0.001.
sumOffTolerance ==
  \/ distributionSum(context.tokenDistribution) > FracScale + FracScale \div 1000
  \/ distributionSum(context.tokenDistribution) < FracScale - FracScale \div 1000

\* C1: a call whose distribution sum differs from 1.0 by more than 0.001
\* fails with an error naming the sum, before any provider query, before the
\* simulator is constructed and before any iteration; a sum within the
\* tolerance is not rejected.
DistributionSumChecked ==
  /\ (sumOffTolerance /\ pc # "start") =>
       /\ pc = "failed"
       /\ error.message = "Token distribution must sum to 1.0"
       /\ error.got = toFixed3(distributionSum(context.tokenDistribution))
       /\ providerCalls = 0
       /\ ~ constructed
       /\ iteration = 0 /\ results = <<>> /\ appended = <<>>
  /\ ~ sumOffTolerance => pc # "failed"

\* C1: the call with the sum 1.002 has failed.
DistributionSumCheckedWitness ==
  /\ pc = "failed"
  /\ distributionSum(context.tokenDistribution) = FracScale + 20
  /\ error.got = 1002

\* C2: the token price of every recorded state is strictly positive,
\* whatever the market effect and the historical influence were (a price
\* that is not a number is another matter and is left aside here).
TokenPriceStrictlyPositive ==
  \A i \in 1..Len(recordedStates) :
    IsNum(recordedStates[i].tokenPrice) => recordedStates[i].tokenPrice > 0

\* C3: the cumulative vested amount of a schedule does not decrease from
\* one month to the next, never exceeds totalTokens, and is totalTokens from
\* month cliffMonths + vestingMonths on.
CumulativeVestingBounded ==
  pc = "vesting" =>
    /\ vPrevious <= vCumulative
    /\ vCumulative <= vSchedule.totalTokens
    /\ vMonth >= vSchedule.cliffMonths + vSchedule.vestingMonths =>
         vCumulative = vSchedule.totalTokens

\* C3: a schedule with a cliff, a partial initial unlock and several vesting
\* months, walked past its end.
CumulativeVestingBoundedWitness ==
  /\ pc = "vesting"
  /\ vSchedule.totalTokens > 0
  /\ vSchedule.cliffMonths > 0
  /\ vSchedule.vestingMonths > 1
  /\ vSchedule.initialUnlock = 25
  /\ vMonth > vSchedule.cliffMonths + vSchedule.vestingMonths
  /\ vCumulative = vSchedule.totalTokens

\* C4: the concentration risk of a returned result is a number between 0
\* and 1, whatever the final circulating supply and the schedules are.
ConcentrationRiskInUnitInterval ==
  Returned =>
    /\ IsNum(result.distributionMetrics.concentrationRisk)
    /\ result.distributionMetrics.concentrationRisk >= 0
    /\ result.distributionMetrics.concentrationRisk <= FracScale

\* Some provider call of the run failed or came back empty.
providerFailed ==
  \/ pc \notin {"start", "validated", "failed", "awaitAsset"} /\ ~ replies.asset.present
  \/ pc \notin {"start", "validated", "failed", "awaitAsset", "awaitHistory"}
       /\ ~ replies.history.present
  \/ pc \notin {"start", "validated", "failed", "awaitAsset", "awaitHistory", "awaitRange"}
       /\ Len(replies.range.prices) = 0

\* C5: when provider calls fail or return nothing the run goes on: the
\* simulator keeps a non-empty synthetic series, every iteration runs with
\* every month, and the result returned has simulationMonths entries; the
\* call fails on the distribution check only.
ProviderFailureDegrades ==
  /\ pc = "failed" => sumOffTolerance /\ providerCalls = 0
  /\ pc \in {"iterate", "month", "aggregated", "done"} => Len(historicalPrices) > 0
  /\ (providerFailed /\ Returned) =>
       /\ Len(results) = context.iterations
       /\ \A i \in 1..Len(results) : Len(results[i]) = context.simulationMonths
       /\ Len(result.trajectory) = context.simulationMonths
  /\ pc = "done" => output.rows = context.simulationMonths

\* C5: all three provider calls failed and the call returned a full result.
ProviderFailureDegradesWitness ==
  /\ pc = "done"
  /\ ~ replies.asset.present
  /\ ~ replies.history.present
  /\ replies.range.kind = "error"
  /\ Len(historicalPrices) = context.simulationMonths * 30
  /\ output.rows = context.simulationMonths
  /\ Len(results) = context.iterations

\* The run waits for an answer of the provider.
awaitingProvider == pc \in {"awaitAsset", "awaitHistory", "awaitRange"}

\* C6: the historical fetches are bounded in time: a run that waits for the
\* provider stops waiting, whether or not the provider ever answers.
FetchBoundedInTime == awaitingProvider ~> ~ awaitingProvider

\* C7: with iterations = 1, the call repeated with the same input (and the
\* same provider answers) returns the trajectory the first call returned:
\* nothing in the run is drawn from an unseeded source.
RepeatedRunIdentical ==
  (run = 2 /\ Returned) => DeepTrajectory(result.trajectory, heap) = firstRun

\* C8: with iterations = 1 the aggregated trajectory is the trajectory of the
\* single iteration: at every month every field, the fields of userMetrics
\* included, has the value the iteration's state had at that month.
SingleIterationAggregateIsTheRun ==
  (Returned /\ context.iterations = 1) =>
    DeepTrajectory(result.trajectory, heap) = appended[1]

\* The values a top-level field had at month m (1-based) in each iteration.
fieldAtMonth(key, m) == [i \in 1..Len(appended) |-> appended[i][m][key]]

\* The values a userMetrics field had at month m (1-based) in each iteration.
nestedAtMonth(nestedKey, m) ==
  [i \in 1..Len(appended) |-> appended[i][m].userMetrics[nestedKey]]

\* C9: every numeric field of the aggregated state of a month, the fields
\* of userMetrics included, is the arithmetic mean over the iterations of the
\* value the field had in the iteration's state at that month; and the
\* aggregation leaves the iterations' userMetrics objects holding what the
\* iterations left in them.
AggregateIsMonthlyMean ==
  Returned =>
    /\ \A m \in 1..Len(result.trajectory) :
         /\ \A key \in DOMAIN result.trajectory[m] \ {"userMetrics"} :
              result.trajectory[m][key] = calculateMean(fieldAtMonth(key, m))
         /\ \A nestedKey \in DOMAIN heap[result.trajectory[m].userMetrics] :
              heap[result.trajectory[m].userMetrics][nestedKey]
                = calculateMean(nestedAtMonth(nestedKey, m))
    /\ \A i \in 1..Len(results) :
         \A m \in 1..Len(results[i]) :
           heap[results[i][m].userMetrics] = appended[i][Len(appended[i])].userMetrics

\* a <= b between numbers; nothing is ordered against NaN.
NumLeq(a, b) == IsNum(a) /\ IsNum(b) /\ a <= b

\* The token price every iteration recorded at its last month.
lastMonthPrices == [i \in 1..Len(appended) |-> appended[i][Len(appended[i])].tokenPrice]

\* The token prices recorded at all months of all iterations.
allMonthPrices == FieldOf(recordedStates, "tokenPrice")

\* C10: finalPrice is the mean over the iterations of the last-month price,
\* maxPrice and minPrice are the largest and the smallest price over all
\* months of all iterations, so minPrice <= finalPrice <= maxPrice and every
\* aggregated monthly price lies between minPrice and maxPrice.
SummaryPricesBounded ==
  Returned =>
    /\ result.summary.finalPrice = calculateMean(lastMonthPrices)
    /\ \E i \in 1..Len(allMonthPrices) : allMonthPrices[i] = result.summary.maxPrice
    /\ \E i \in 1..Len(allMonthPrices) : allMonthPrices[i] = result.summary.minPrice
    /\ \A i \in 1..Len(allMonthPrices) :
         /\ NumLeq(result.summary.minPrice, allMonthPrices[i])
         /\ NumLeq(allMonthPrices[i], result.summary.maxPrice)
    /\ NumLeq(result.summary.minPrice, result.summary.finalPrice)
    /\ NumLeq(result.summary.finalPrice, result.summary.maxPrice)
    /\ \A m \in 1..Len(result.trajectory) :
         /\ NumLeq(result.summary.minPrice, result.trajectory[m].tokenPrice)
         /\ NumLeq(result.trajectory[m].tokenPrice, result.summary.maxPrice)

\* The token price every iteration starts from.
simulationInitialPrice == iterationStart(Params(context), initialMetrics, 0, 0).tokenPrice

\* C11: totalReturn of the summary is (mean of the iterations' final prices -
\* initialPrice) / initialPrice x 100, initialPrice being the token price the
\* simulation starts from.
TotalReturnFromInitialPrice ==
  Returned =>
    result.summary.totalReturn
      = FDiv(FSub(calculateMean(lastMonthPrices), simulationInitialPrice),
             simulationInitialPrice, FracScale)

\* C11: a run that started from the provider's price 2.0 has returned a
\* total return that is a number and not zero.
TotalReturnFromInitialPriceWitness ==
  /\ Returned
  /\ initialMetrics.initialData.present
  /\ simulationInitialPrice = 2 * PriceScale
  /\ IsNum(result.summary.totalReturn)
  /\ result.summary.totalReturn # 0

\* The token prices of the aggregated trajectory, in month order.
aggregatedPrices == FieldOf(result.trajectory, "tokenPrice")

\* The largest element of a non-empty set of numbers.
SetMax(S) == CHOOSE x \in S : \A y \in S : y <= x

\* The running peak of the aggregated price at entry m, and the fractional
\* decline from it.
peakAt(m) == SetMax({0} \cup {aggregatedPrices[i] : i \in 1..m})
declineAt(m) == FDiv(peakAt(m) - aggregatedPrices[m], peakAt(m), FracScale)

\* C12: maxDrawdown is the largest decline from the running peak of the
\* aggregated price, walked in month order; it is 0 when the aggregated price
\* never falls below an earlier value, and at least 0 and below 100 percent
\* when all aggregated prices are positive.
MaxDrawdownIsPeakToTrough ==
  (Returned /\ \A m \in 1..Len(aggregatedPrices) : IsNum(aggregatedPrices[m])) =>
    /\ result.summary.maxDrawdown
         = SetMax({0} \cup {declineAt(m) : m \in 1..Len(aggregatedPrices)})
    /\ (\A i, j \in 1..Len(aggregatedPrices) :
          i < j => aggregatedPrices[i] <= aggregatedPrices[j])
         => result.summary.maxDrawdown = 0
    /\ (\A m \in 1..Len(aggregatedPrices) : aggregatedPrices[m] > 0)
         => result.summary.maxDrawdown >= 0 /\ result.summary.maxDrawdown < FracScale

\* C12: the aggregated price stayed positive and fell below an earlier value.
MaxDrawdownIsPeakToTroughWitness ==
  /\ Returned
  /\ Len(aggregatedPrices) >= 2
  /\ \A m \in 1..Len(aggregatedPrices) : aggregatedPrices[m] > 0
  /\ aggregatedPrices[2] < aggregatedPrices[1]
  /\ result.summary.maxDrawdown > 0
  /\ result.summary.maxDrawdown < FracScale

\* The scores of the returned risk assessment.
scores == output.riskAssessment

\* A component score is a number between 0 and 100 points.
ScoreInRange(score) == IsNum(score) /\ score >= 0 /\ score <= 100 * ScoreScale

\* C13: the overall risk score of a returned run is an integer between 0
\* and 100, the rounded weighted sum of five component scores that each lie
\* between 0 and 100.
OverallRiskScoreInRange ==
  pc = "done" =>
    /\ ScoreInRange(scores.concentrationRiskScore)
    /\ ScoreInRange(scores.liquidityRiskScore)
    /\ ScoreInRange(scores.volatilityRiskScore)
    /\ ScoreInRange(scores.vestingRiskScore)
    /\ scores.marketRiskScore \in 0..100
    /\ scores.overallRiskScore \in 0..100
    /\ scores.overallRiskScore
         = (25 * scores.concentrationRiskScore + 20 * scores.liquidityRiskScore
            + 20 * scores.volatilityRiskScore + 15 * scores.vestingRiskScore
            + 20 * ScoreScale * scores.marketRiskScore + 50 * ScoreScale)
           \div (100 * ScoreScale)

\* C13 where every aggregated quantity is a number: then the scores are in
\* range.
OverallRiskScoreInRangeOfNumbers ==
  (pc = "done" /\ IsNum(result.distributionMetrics.concentrationRisk)
     /\ IsNum(result.summary.volatility))
    => /\ ScoreInRange(scores.concentrationRiskScore)
       /\ ScoreInRange(scores.liquidityRiskScore)
       /\ ScoreInRange(scores.volatilityRiskScore)
       /\ ScoreInRange(scores.vestingRiskScore)
       /\ scores.overallRiskScore \in 0..100

\* Historical series whose price before the read one is zero.
ZeroPreviousSeries == { <<0, 2 * PriceScale>>, <<0, 0>>, <<0, PriceScale, 3 * PriceScale>> }

\* The final state of the aggregated trajectory.
finalAggregated == result.trajectory[Len(result.trajectory)]

\* C14: a division by zero is never propagated: the historical influence is
\* 0 when the previous historical price is zero, and with a circulating
\* supply of zero the concentration risk, the average holding, the inflation
\* rates, the staking ratio and the liquidity ratio are all zero.
DivisionByZeroNotPropagated ==
  /\ \A prices \in ZeroPreviousSeries : \A m \in 0..(MaxMonths - 1) :
       getHistoricalInfluence(prices, m) = 0
  /\ (pc = "done" /\ finalAggregated.circulatingSupply = 0) =>
       /\ output.concentrationRisk = 0
       /\ heap[finalAggregated.userMetrics].averageHolding = 0
       /\ \A i \in 1..Len(output.inflationRate) : output.inflationRate[i] = 0
       /\ output.stakingRatio = 0
       /\ output.liquidityRatio = 0

\* C14, the guarded divisions only: the historical influence and the
\* average holding.
GuardedDivisionsFallBackToZero ==
  /\ \A prices \in ZeroPreviousSeries : \A m \in 0..(MaxMonths - 1) :
       getHistoricalInfluence(prices, m) = 0
  /\ (pc = "done" /\ finalAggregated.circulatingSupply = 0) =>
       heap[finalAggregated.userMetrics].averageHolding = 0

\* C14 read loosely: with a circulating supply of zero the staking ratio is
\* at least a number.
StakingRatioIsNumber ==
  (pc = "done" /\ finalAggregated.circulatingSupply = 0) => IsNum(output.stakingRatio)

\* C14 read loosely: with a circulating supply of zero the liquidity ratio
\* is at least finite.
LiquidityRatioIsNumber ==
  (pc = "done" /\ finalAggregated.circulatingSupply = 0) => IsNum(output.liquidityRatio)

\* The input breaks one of the constraints on iterations, simulationMonths
\* or a vesting schedule.
constraintViolated(ctx) ==
  \/ ctx.iterations < 1
  \/ ctx.simulationMonths < 1
  \/ \E i \in 1..Len(ctx.vestingSchedules) :
       \/ ctx.vestingSchedules[i].initialUnlock < 0
       \/ ctx.vestingSchedules[i].initialUnlock > 100
       \/ ctx.vestingSchedules[i].cliffMonths < 0
       \/ ctx.vestingSchedules[i].vestingMonths < 1

\* The issues found name the path of the value.
Names(path) == \E issue \in issues : issue.path = path

\* No simulation work has been done: no simulator, no provider query, no
\* trajectory, no result.
NoSimulationWork ==
  /\ ~ constructed
  /\ providerCalls = 0
  /\ replies = NoReplies
  /\ trajectory = <<>>
  /\ results = <<>>
  /\ result = NoResult
  /\ output = NoOutput

monthlyAmount(schedule, m) ==
  IF m <= schedule.cliffMonths THEN 0
  ELSE IF m <= schedule.cliffMonths + schedule.vestingMonths
  THEN ((schedule.totalTokens * (100 - schedule.initialUnlock)) \div 100)
         \div schedule.vestingMonths
  ELSE 0

TeamExample == Schedule("Team", 200000, 12, 24, 0)

\* C16: vestTokens contributes, for each schedule, 0 up to the cliff, then
\* totalTokens x (1 - initialUnlock/100) / vestingMonths in each of the
\* vestingMonths months after the cliff, then 0; for several schedules it is
\* the sum of their contributions (Team 200,000 / cliff 12 / vesting 24 /
\* unlock 0: zero for months 0-12, 200,000/24 at month 13).
VestTokensMonthlyAmount ==
  /\ pc = "vesting" =>
       IF vMonth = 0 THEN vCumulative = SumInitialUnlock(<< vSchedule >>)
       ELSE vCumulative - vPrevious = monthlyAmount(vSchedule, vMonth)
  /\ \A schedules \in ScheduleLists : \A m \in 0..VestHorizon :
       vestTokens(schedules, m)
         = SumSeq([i \in 1..Len(schedules) |-> monthlyAmount(schedules[i], m)])
  /\ \A m \in 0..12 : vestTokens(<< TeamExample >>, m) = 0
  /\ vestTokens(<< TeamExample >>, 13) = 200000 \div 24

\* The second month after the cliff of a schedule of three vesting months:
\* a third of the vestable tokens is added, as in the month before.
VestTokensMonthlyAmountWitness ==
  /\ pc = "vesting"
  /\ vSchedule = Schedule("Team", 1200, 2, 3, 25)
  /\ vMonth = 4
  /\ vCumulative - vPrevious = 300
  /\ vCumulative = 300 + 2 * 300

\* previous x (1 + marketEffect(m) + historicalInfluence(m)), for the draw r
\* of the month.
priceAfter(previous, p, m, r) ==
  FMul(previous,
       FAdd(EffScale + getMarketEffect(p, m, r), getHistoricalInfluence(historicalPrices, m)),
       EffScale)

\* Entry k of a trajectory (month k - 1) holds the price of the entry before
\* it, or the initial price for the first entry, after one transition.
IsTransition(t, k) ==
  \E r \in MonthDraws :
    t[k].tokenPrice
      = priceAfter(IF k = 1 THEN simulationInitialPrice ELSE t[k - 1].tokenPrice,
                   Params(context), k - 1, r)

\* The parameters of the run with a stable market, multiplier 1.0 and
\* volatilityFactor 0.
StableParams ==
  [Params(context) EXCEPT
     !.marketConditions =
       [scenario |-> "stable", marketMultiplier |-> 10, volatilityFactor |-> 0,
        externalEvents |-> <<>>]]

\* C17: every month sets the price to the previous price times
\* 1 + marketEffect(month) + historicalInfluence(month), starting from the
\* initial price, so that the entry of month 0 already holds one drift; for
\* one iteration of one month, and a stable market with multiplier 1.0 and
\* volatilityFactor 0, the final price is
\* initialPrice x (1 + 0.001 + historicalInfluence(0)).
MonthlyPriceTransition ==
  /\ \A k \in 1..Len(trajectory) : IsTransition(trajectory, k)
  /\ \A i \in 1..Len(results) : \A k \in 1..Len(results[i]) : IsTransition(results[i], k)
  /\ (Returned /\ context.iterations = 1 /\ context.simulationMonths = 1) =>
       \E r \in MonthDraws :
         result.summary.finalPrice
           = priceAfter(simulationInitialPrice, Params(context), 0, r)
  /\ (pc = "month" /\ month = 0) =>
       \A r \in MonthDraws :
         monthState(StableParams, historicalPrices, currentState, 0, r).tokenPrice
           = FMul(simulationInitialPrice,
                  FAdd(EffScale + 1, getHistoricalInfluence(historicalPrices, 0)),
                  EffScale)

\* An iteration of two months over a falling historical series: the entry
\* of month 0 differs from the initial price, and the entry of month 1
\* carries the historical influence.
MonthlyPriceTransitionWitness ==
  /\ pc = "month"
  /\ Len(trajectory) = 2
  /\ IsNum(trajectory[2].tokenPrice)
  /\ trajectory[1].tokenPrice # simulationInitialPrice
  /\ getHistoricalInfluence(historicalPrices, 1) < 0
  /\ trajectory[2].tokenPrice < trajectory[1].tokenPrice

\* Entry k of trajectory t, the trajectory of iteration i, still holds what
\* it held when it was appended, nested user metrics included.
EntryKept(t, i, k) == Deep(t[k], heap) = appended[i][k]

\* C18: a trajectory is append-only: no later transition changes any field
\* of an appended entry, nested user metrics included, and a finished
\* trajectory has exactly simulationMonths entries with month = 0, 1, ...
\* in order.
TrajectoryAppendOnly ==
  /\ pc = "month" => \A k \in 1..Len(trajectory) : EntryKept(trajectory, Len(appended), k)
  /\ \A i \in 1..Len(results) :
       /\ Len(results[i]) = context.simulationMonths
       /\ \A k \in 1..Len(results[i]) : results[i][k].month = k - 1
       /\ pc \in {"iterate", "month"} =>
            \A k \in 1..Len(results[i]) : EntryKept(results[i], i, k)

\* C18 without the nested user metrics: the entries' own fields are kept,
\* and a finished trajectory has simulationMonths entries in month order.
TrajectoryOwnFieldsKept ==
  /\ pc = "month" =>
       \A k \in 1..Len(trajectory) :
         [trajectory[k] EXCEPT !.userMetrics = 0]
           = [appended[Len(appended)][k] EXCEPT !.userMetrics = 0]
  /\ \A i \in 1..Len(results) :
       /\ Len(results[i]) = context.simulationMonths
       /\ \A k \in 1..Len(results[i]) :
            /\ results[i][k].month = k - 1
            /\ pc \in {"iterate", "month"} =>
                 [results[i][k] EXCEPT !.userMetrics = 0]
                   = [appended[i][k] EXCEPT !.userMetrics = 0]

\* The userMetrics objects the recorded states of iteration i hold.
objectsOf(i) == { results[i][k].userMetrics : k \in 1..Len(results[i]) }

\* The userMetrics objects the aggregated trajectory holds, the ones
\* calculateAverageState assigns the means to.
aggregatedObjects == { result.trajectory[m].userMetrics : m \in 1..Len(result.trajectory) }

\* The state an iteration starts from: a function of the parameters and the
\* loaded reference data only.
startsFromInitialState ==
  (pc = "month" /\ month = 0) =>
    Deep(currentState, heap)
      = [iterationStart(Params(context), initialMetrics, 0, 0) EXCEPT
           !.userMetrics =
             IF initialMetrics.set THEN RealUserMetrics(Params(context), initialMetrics)
             ELSE InitialUserMetrics(Params(context))]

RunningIterationsShareNothing ==
  /\ startsFromInitialState
  /\ \A i \in 1..Len(results) :
       /\ pc = "month" => currentState.userMetrics \notin objectsOf(i)
       /\ \A j \in 1..Len(results) : i # j => objectsOf(i) \cap objectsOf(j) = {}

\* Once an iteration is recorded, its states read the same after every later
\* step, wherever the means of equal values are those values.
RecordedIterationsReadTheSame ==
  [][\A i \in 1..Len(results) :
       pc # "done" => DeepTrajectory(results[i], heap') = DeepTrajectory(results[i], heap)]_vars

\* The phases of a call, in the order the claim gives them.
beforeProvider == pc \in {"start", "validated", "failed"}
loading == pc \in {"awaitAsset", "awaitHistory", "awaitRange"}
iterating == pc \in {"iterate", "month"}

\* C20: the phases of a run come in a fixed order: the parameters are
\* validated before any provider query; the historical data is loaded once,
\* and wholly before the first iteration, with no provider call during or
\* after the iterations; aggregation starts only when all the iterations'
\* trajectories are complete; the risk and distribution metrics come from
\* the aggregated trajectory.
PhasesInFixedOrder ==
  /\ providerCalls > 0 => ~ beforeProvider /\ distributionAccepted(context.tokenDistribution)
  /\ beforeProvider => providerCalls = 0 /\ replies = NoReplies /\ historicalPrices = <<>>
  /\ (beforeProvider \/ loading) =>
       iteration = 0 /\ trajectory = <<>> /\ results = <<>> /\ appended = <<>>
  /\ (iterating \/ Returned) =>
       /\ providerCalls = 3
       /\ initialMetrics.set
       /\ \E r \in SyntheticDraws :
            historicalPrices = loadedPrices(Params(context), replies.range.prices, r)
  /\ ~ Returned => result = NoResult /\ output = NoOutput
  /\ Returned =>
       /\ Len(results) = context.iterations
       /\ \A i \in 1..Len(results) : Len(results[i]) = context.simulationMonths
       /\ Len(result.trajectory) = context.simulationMonths
       /\ result.distributionMetrics
            = calculateDistributionMetrics(Params(context), result.trajectory)
  /\ pc = "aggregated" => output = NoOutput
  /\ pc = "done" =>
       output.riskAssessment = riskAssessment(context, Params(context), result)

\* A call of two iterations has been aggregated after three provider calls,
\* the last of which answered with a price series.
PhasesInFixedOrderWitness ==
  /\ pc = "done"
  /\ context.iterations = 2
  /\ Len(results) = 2
  /\ providerCalls = 3
  /\ Len(replies.range.prices) > 1
  /\ historicalPrices = replies.range.prices
  /\ Len(result.trajectory) = context.simulationMonths
  /\ output.rows = context.simulationMonths

\* The base drift of a scenario as the claim tabulates it, in 1/EffScale
\* for a multiplier in tenths.
claimedBase(scenario, multiplier, m) ==
  IF scenario = "bull" THEN (50 * multiplier) \div 10
  ELSE IF scenario = "bear" THEN (-30 * multiplier) \div 10
  ELSE IF scenario = "stable" THEN multiplier \div 10
  ELSE IF scenario = "crash" THEN
         (IF m \in {0, 1, 2} THEN (-150 * multiplier) \div 10 ELSE (20 * multiplier) \div 10)
  ELSE 0

\* The sum of impact/100 over the events of month m, in 1/EffScale.
claimedEvents(events, m) ==
  SumSeq([i \in 1..Len(events) |-> IF events[i].month = m THEN events[i].impact * 10 ELSE 0])

\* C21: getMarketEffect(month) = base + events + noise: base by scenario
\* (bull 0.05, bear -0.03, stable 0.001, crash -0.15 in months 0-2 and +0.02
\* from month 3, each times the multiplier, custom 0), events the sum of
\* impact/100 over the events of the month, noise a fresh draw within
\* [-volatilityFactor/2, +volatilityFactor/2].
MarketEffectIsBaseEventsNoise ==
  pc = "market" =>
    \A k \in 1..Len(callResults) :
      LET noise ==
            callResults[k]
              - claimedBase(callArgs.scenario, callArgs.marketMultiplier, callArgs.month)
              - claimedEvents(callArgs.externalEvents, callArgs.month)
      IN /\ 2 * noise >= - callArgs.volatilityFactor
         /\ 2 * noise <= callArgs.volatilityFactor

\* Two calls for month 3 of a crash with two events in that month: the
\* base is +0.02 x 3, the events add 0.03, and the two draws differ.
MarketEffectIsBaseEventsNoiseWitness ==
  /\ pc = "market"
  /\ callArgs.scenario = "crash" /\ callArgs.month = 3 /\ callArgs.marketMultiplier = 30
  /\ Len(callArgs.externalEvents) = 4
  /\ callArgs.volatilityFactor = 100
  /\ Len(callResults) = 2
  /\ callResults[1] = 60 + 30 - 50
  /\ callResults[2] = 60 + 30 + 25

\* getHistoricalInfluence has been called and has returned.
influenceReturned == pc = "influence" /\ Len(callResults) = 1

\* The claim's index for day m x 30, i = min(30 m, length - 2), and the
\* index 30 days earlier, j = max(0, i - 30), counted from 0.
claimedI(p, m) == Min(30 * m, Len(p) - 2)
claimedJ(p, m) == Max(0, claimedI(p, m) - 30)

\* C22: the historical influence of month m is 0.3 x (p[i] - p[j]) / p[j]
\* with i = min(30 m, length - 2) and j = max(0, i - 30); it is 0 at month 0
\* and 0 for an empty series.
HistoricalInfluenceFormula ==
  influenceReturned =>
    LET p == callArgs.historicalPrices
        m == callArgs.month
        value == callResults[1].value
    IN /\ Len(p) = 0 => value = 0
       /\ m = 0 => value = 0
       /\ Len(p) >= 2 =>
            value = (3 * (((p[claimedI(p, m) + 1] - p[claimedJ(p, m) + 1]) * EffScale)
                            \div p[claimedJ(p, m) + 1])) \div 10

\* C22 for the series of two prices or more, and the empty one.
HistoricalInfluenceFormulaFromTwoPrices ==
  (influenceReturned /\ Len(callArgs.historicalPrices) # 1) =>
    LET p == callArgs.historicalPrices
        m == callArgs.month
        value == callResults[1].value
    IN /\ Len(p) = 0 => value = 0
       /\ m = 0 => value = 0
       /\ Len(p) >= 2 =>
            value = (3 * (((p[claimedI(p, m) + 1] - p[claimedJ(p, m) + 1]) * EffScale)
                            \div p[claimedJ(p, m) + 1])) \div 10

\* C30: for a series of one price or more and every month,
\* getHistoricalInfluence reads only indices inside the series and returns
\* a finite number.
HistoricalInfluenceDefined ==
  (influenceReturned /\ Len(callArgs.historicalPrices) >= 1) =>
    /\ callResults[1].read \subseteq 0..(Len(callArgs.historicalPrices) - 1)
    /\ IsNum(callResults[1].value)

\* C30 for the series of two prices or more.
HistoricalInfluenceDefinedFromTwoPrices ==
  (influenceReturned /\ Len(callArgs.historicalPrices) >= 2) =>
    /\ callResults[1].read \subseteq 0..(Len(callArgs.historicalPrices) - 1)
    /\ IsNum(callResults[1].value)

\* The sum over the schedules of totalTokens x initialUnlock / 100, plus
\* publicSale x maxSupply.
claimedInitialSupply ==
  SumSeq([i \in 1..Len(context.vestingSchedules) |->
            (context.vestingSchedules[i].totalTokens
               * context.vestingSchedules[i].initialUnlock) \div 100])
  + (context.tokenDistribution.publicSale * MaxSupply) \div FracScale

\* C23: every iteration starts from a circulating supply of the schedules'
\* initial unlocks plus publicSale x maxSupply, with or without reference
\* market data, and the month-0 transition adds nothing to it.
InitialSupplyFromUnlocksAndPublicSale ==
  /\ (pc = "month" /\ month = 0) => currentState.circulatingSupply = claimedInitialSupply
  /\ \A i \in 1..Len(appended) :
       Len(appended[i]) >= 1 => appended[i][1].circulatingSupply = claimedInitialSupply

\* The second iteration of a run with reference data and two schedules with
\* initial unlocks has made its month-0 transition: 300 + 100 unlocked and
\* 150 of public sale.
InitialSupplyFromUnlocksAndPublicSaleWitness ==
  /\ pc = "month"
  /\ Len(appended) = 2
  /\ Len(trajectory) = 1
  /\ initialMetrics.initialData.present
  /\ Len(context.vestingSchedules) = 2
  /\ context.tokenDistribution.publicSale = 1500
  /\ trajectory[1].circulatingSupply = 300 + 100 + 150

\* x is a x b, the product of a price a (possibly NaN) and a token amount b,
\* up to tol.
IsProduct(x, a, b, tol) ==
  IF a = NaN \/ x = NaN THEN x = NaN /\ a = NaN
  ELSE x - a * b <= tol /\ a * b - x <= tol

\* marketCap = circulatingSupply x tokenPrice and fullyDilutedValuation =
\* maxSupply x tokenPrice in a state, up to tol times the supply.
DerivedFieldsConsistent(state, tol) ==
  /\ IsProduct(state.marketCap, state.tokenPrice, state.circulatingSupply,
               tol * state.circulatingSupply)
  /\ IsProduct(state.fullyDilutedValuation, state.tokenPrice, MaxSupply, tol * MaxSupply)

\* C24: in every state of every iteration's trajectory, and in every state
\* of the aggregated trajectory whatever the number of iterations,
\* marketCap = circulatingSupply x tokenPrice and fullyDilutedValuation =
\* maxSupply x tokenPrice (in the aggregated states up to the rounding of
\* the mean price, one price unit).
MarketCapAndValuationConsistent ==
  /\ \A k \in 1..Len(trajectory) : DerivedFieldsConsistent(trajectory[k], 0)
  /\ \A i \in 1..Len(results) : \A k \in 1..Len(results[i]) :
       DerivedFieldsConsistent(results[i][k], 0)
  /\ Returned =>
       \A m \in 1..Len(result.trajectory) :
         DerivedFieldsConsistent(result.trajectory[m],
                                 IF context.iterations = 1 THEN 0 ELSE 1)

\* Two iterations with different prices in the last month have been
\* aggregated over a supply that is not zero.
MarketCapAndValuationConsistentWitness ==
  /\ Returned
  /\ Len(results) = 2
  /\ Len(result.trajectory) = 2
  /\ IsNum(result.trajectory[2].tokenPrice)
  /\ results[1][2].tokenPrice # results[2][2].tokenPrice
  /\ result.trajectory[2].circulatingSupply > 0
  /\ result.trajectory[2].marketCap > 0

RECURSIVE compounded(_, _, _)
\* holders x (1 + g/100)^n, a month at a time.
compounded(holders, g, n) ==
  IF n = 0 THEN holders ELSE compounded((holders * (100 + g)) \div 100, g, n - 1)

\* The total holders an iteration starts with.
initialTotalHolders ==
  IF initialMetrics.set THEN RealUserMetrics(Params(context), initialMetrics).totalHolders
  ELSE InitialUserMetrics(Params(context)).totalHolders

\* After its final month every finished iteration has the initial holders
\* compounded at g percent a month, and an average holding of circulating
\* supply over holders.
HoldersCompoundAt(g) ==
  \A i \in 1..Len(results) :
    LET final == appended[i][Len(appended[i])]
    IN /\ final.userMetrics.totalHolders
            = compounded(initialTotalHolders, g, context.simulationMonths)
       /\ final.userMetrics.averageHolding
            = FDiv(final.circulatingSupply * HoldScale, final.userMetrics.totalHolders,
                   HoldScale)

\* C25: total holders compound at the monthly user growth rate of the input
\* (userGrowthRate): after the final month they are the initial holders x
\* (1 + g/100)^simulationMonths, and the average holding is circulating
\* supply / total holders.
HoldersCompoundAtUserGrowthRate == HoldersCompoundAt(context.userGrowthRate)

\* C25 with the rate the simulator is given, the input's
\* protocolRevenueGrowth.
HoldersCompoundAtRevenueGrowth == HoldersCompoundAt(context.protocolRevenueGrowth)

\* execute has built the vesting summary.
summaryBuilt == pc = "summary" /\ Len(callResults) = 1

\* What the engine released for a schedule over months 0 .. months - 1, on
\* top of its initial unlock.
engineVested(schedule, months) ==
  (schedule.totalTokens * schedule.initialUnlock) \div 100
  + SumSeq([k \in 1..months |-> vestTokens(<< schedule >>, k - 1)])

\* The rows of the summary agree with the engine.
SummaryAgrees ==
  \A idx \in 1..Len(callArgs.vestingSchedules) :
    LET schedule == callArgs.vestingSchedules[idx]
        row == callResults[1][idx]
    IN /\ row.vestedTokens = engineVested(schedule, callArgs.simulationMonths)
       /\ row.vestedTokens <= schedule.totalTokens
       /\ row.vestedTokens + row.remainingTokens = schedule.totalTokens

\* C26: the vesting summary agrees with the engine for any list of
\* schedules, schedules that share a group name included: every schedule's
\* vestedTokens is its initial unlock plus what vestTokens released for it
\* over months 0 .. simulationMonths - 1, never more than its totalTokens,
\* and vestedTokens + remainingTokens = totalTokens.
VestingSummaryAgreesWithEngine == summaryBuilt => SummaryAgrees

\* C26 for lists whose schedules have different group names.
VestingSummaryAgreesForDistinctGroups ==
  (summaryBuilt
     /\ \A a, b \in 1..Len(callArgs.vestingSchedules) :
          a # b => callArgs.vestingSchedules[a].groupName
                     # callArgs.vestingSchedules[b].groupName)
    => SummaryAgrees

\* An iteration is at the head of its month loop, before its first month:
\* currentState is the state the iteration starts from.
atIterationStart == pc = "month" /\ month = 0

\* The three cases of the initial price.
overrideSupplied == context.initialTokenPrice # 0
referencePriceOnly ==
  ~overrideSupplied /\ initialMetrics.set /\ initialMetrics.initialData.present
    /\ initialMetrics.initialData.current_price # 0
noPriceAvailable == ~overrideSupplied /\ ~referencePriceOnly

StartsFromReferencePrice ==
  atIterationStart /\ referencePriceOnly /\ currentState.tokenPrice = 2 * PriceScale

\* C27, third case: an iteration starts from 1.0.
StartsFromDefaultPrice ==
  atIterationStart /\ noPriceAvailable /\ currentState.tokenPrice = PriceScale

\* The initialTokenPrice of the input is the price the iterations start from.
OverrideIsIterationStartPrice ==
  (atIterationStart /\ overrideSupplied)
    => currentState.tokenPrice = context.initialTokenPrice

\* The fields of a state a month transition may change, userMetrics standing
\* for its totalHolders and averageHolding.
changedFields ==
  {"month", "circulatingSupply", "tokenPrice", "marketCap", "fullyDilutedValuation"}

\* The fields of a state a month transition leaves alone.
keptFields ==
  {"stakedTokens", "burnedTokens", "protocolRevenue", "stakingAPY", "liquidityPoolDepth",
   "totalLiquidity", "treasuryBalance", "dailyVolume"}

\* The state every iteration starts from, with its userMetrics.
startState ==
  [iterationStart(Params(context), initialMetrics, 0, 0) EXCEPT
     !.userMetrics =
       IF initialMetrics.set THEN RealUserMetrics(Params(context), initialMetrics)
       ELSE InitialUserMetrics(Params(context))]

\* A state with its userMetrics holds the kept fields as the start state
\* does, with nothing burned and nothing earned.
keptAsAt(state, start) ==
  /\ \A f \in keptFields : state[f] = start[f]
  /\ state.userMetrics.activeStakers = start.userMetrics.activeStakers
  /\ state.burnedTokens = 0
  /\ state.protocolRevenue = 0

\* In every month of every iteration the kept fields are as at the start.
KeptFieldsAsAtStart ==
  LET start == startState
  IN /\ pc = "month" => keptAsAt(Deep(currentState, heap), start)
     /\ \A i \in 1..Len(appended) :
          \A k \in 1..Len(appended[i]) : keptAsAt(appended[i][k], start)
     /\ \A i \in 1..Len(results) :
          \A k \in 1..Len(results[i]) : keptAsAt(Deep(results[i][k], heap), start)

\* A month transition changes nothing of the state but the changed fields
\* and, of userMetrics, totalHolders and averageHolding.
MonthTransitionChangesOnly ==
  (pc = "month" /\ pc' = "month" /\ Len(trajectory') = Len(trajectory) + 1)
    => /\ \A f \in keptFields : currentState'[f] = currentState[f]
       /\ DOMAIN currentState' = changedFields \cup keptFields \cup {"userMetrics"}
       /\ currentState'.userMetrics = currentState.userMetrics
       /\ heap'[currentState'.userMetrics].activeStakers
            = heap[currentState.userMetrics].activeStakers
       /\ \A o \in 1..Len(heap) : o # currentState.userMetrics => heap'[o] = heap[o]

MonthTransitionChangesOnlyListed == [][MonthTransitionChangesOnly]_vars

withinMaxSupply(state) ==
  /\ state.circulatingSupply <= Params(context).maxSupply
  /\ NumLeq(state.marketCap, state.fullyDilutedValuation)

\* C29: for every accepted input the circulating supply is at most maxSupply
\* in every month of every iteration, so marketCap <= fullyDilutedValuation
\* and the reported mcapToFdvRatio is at most 1.
SupplyWithinMaxSupply ==
  /\ \A i \in 1..Len(appended) :
       \A k \in 1..Len(appended[i]) : withinMaxSupply(appended[i][k])
  /\ pc = "done" =>
       \A index \in 1..Len(output.mcapToFdvRatio) :
         NumLeq(output.mcapToFdvRatio[index], FracScale)

\* The circulating supply alone, of the states pushed so far.
CirculatingSupplyWithinMaxSupply ==
  \A i \in 1..Len(appended) :
    \A k \in 1..Len(appended[i]) :
      appended[i][k].circulatingSupply <= Params(context).maxSupply

\* The schedules hand out, with the public sale, no more than maxSupply.
allocationsFit ==
  SumSeq([i \in 1..Len(context.vestingSchedules) |->
            context.vestingSchedules[i].totalTokens])
    + (context.tokenDistribution.publicSale * Params(context).maxSupply) \div FracScale
    <= Params(context).maxSupply

\* C29 for inputs whose schedules and public sale fit in maxSupply.
CirculatingSupplyWithinMaxSupplyWhenAllocationsFit ==
  allocationsFit => CirculatingSupplyWithinMaxSupply

====
